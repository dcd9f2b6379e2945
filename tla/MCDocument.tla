----------------------------- MODULE MCDocument -----------------------------
\* The instance of Document that TLC checks: two keys, one of which starts with
\* the other, so that a set or a deletion of the short one removes what is at the
\* long one.
EXTENDS Document

CONSTANTS k, kk

MCPrefixes == {<<k, kk>>}
MCCalls ==
    {<<"set", k>>, <<"set", kk>>, <<"delete", k>>, <<"read", kk>>, <<"ask", k>>,
     <<"quiet", k>>}

=============================================================================
