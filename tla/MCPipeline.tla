----------------------------- MODULE MCPipeline -----------------------------
(* Instance of Pipeline for TLC.                                            *)
EXTENDS Pipeline

First(n) == [len |-> n, cont |-> FALSE]
More(n) == [len |-> n, cont |-> TRUE]

\* A tailed file beside a stdin: a record that meets the bound on lines and,
\* after an early flush, none; one that meets the bound on length; no joining.
MCSources == {"file", "stdin"}
MCStdinSources == {"stdin"}
MCSetups ==
  { [joining |-> TRUE,
     input |-> [file |-> <<First(0), More(1), More(2)>>, stdin |-> <<>>]],
    [joining |-> TRUE,
     input |-> [file |-> <<First(1)>>, stdin |-> <<First(2), More(2)>>]],
    [joining |-> FALSE,
     input |-> [file |-> <<First(1)>>, stdin |-> <<First(1)>>]] }

=============================================================================
