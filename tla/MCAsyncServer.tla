---------------------------- MODULE MCAsyncServer ----------------------------
(***************************************************************************)
(* The instance of AsyncServer that TLC checks: a client that waits for    *)
(* replies and one that does not, on two numbers; each asks for pages,     *)
(* for a file or for a chat.                                               *)
(***************************************************************************)
EXTENDS AsyncServer

CONSTANTS patient, hasty

MCScripts ==
    {[c \in Clients |-> IF c = patient THEN s ELSE t] :
        s \in {<<"request">>, <<"upgrade", "text">>},
        t \in {<<"request", "file">>, <<"file", "request">>,
               <<"upgrade", "text">>}}
=============================================================================
