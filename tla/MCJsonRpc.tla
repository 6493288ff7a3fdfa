------------------------------ MODULE MCJsonRpc ------------------------------
(* Two clients that negotiate nothing but methods the terminal does not
   know, or all, and a time to seek to before and after the range.         *)
EXTENDS JsonRpc

MCOffers == {[appToTerminal |-> AppToTerminal, terminalToApp |-> TerminalToApp],
             [appToTerminal |-> {"unknown"}, terminalToApp |-> {"unknown"}]}

MCMedia == {[state |-> "paused", actions |-> {"pause", "seek"}, start |-> 2, end |-> 3],
            [state |-> "playing", actions |-> {"pause"}, start |-> 0, end |-> 1]}

MCSeeks == {[anchor |-> "now", offset |-> 0]}
=============================================================================
