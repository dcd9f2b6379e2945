------------------------------ MODULE MCTopic -------------------------------
\* The instance of Topic that TLC checks.
EXTENDS Topic

=============================================================================
