---------------------------- MODULE MCMultiStop ----------------------------
(***************************************************************************)
(* Actions of markers for TLC.                                             *)
(***************************************************************************)
EXTENDS MultiStop

\* Handlers of their own, and each of the special forms.
MCCommands == { [op |-> "handler", arg |-> 0], [op |-> "from", arg |-> 1],
                [op |-> "from+", arg |-> 1], [op |-> "eof", arg |-> 0],
                [op |-> "none", arg |-> 0] }

\* Handlers only.
HandlerCommands == { [op |-> "handler", arg |-> 0] }

MCNames == {"a", "b"}

=============================================================================
