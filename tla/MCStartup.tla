----------------------------- MODULE MCStartup ------------------------------
(* Register files of a few parts: numbered, unnumbered and repeated        *)
(* registers, files that end in their tag or in a newline after it.        *)
EXTENDS Startup

MCParts == {Register(n, k) : n \in Names, k \in {NoNumber, 5}}
MCEndings == {<<EndTag>>, <<EndTag, Newline>>}
MCLayouts ==
    {<<<<p>> \o e, <<q, r>> \o f>> : p, q, r \in MCParts, e, f \in MCEndings}
MCLeftovers == {<<>>, <<Stop("SIGTRAP")>>, <<Data("old")>>, <<Data("old"), Stop("SIGTRAP")>>}
=============================================================================
