---------------------------- MODULE MCRegistry ----------------------------
(* Two binaries of different versions over one store, and a server of      *)
(* three tools two of which have the same id once sanitized.               *)
EXTENDS Registry, TLC
CONSTANTS p1, p2
MCProcs == {p1, p2}
MCVersion == (p1 :> "conversation" @@ p2 :> "old_conversation")
MCSlug == <<"get-x", "get-x", "put">>
Discoveries == {<<{"read_only"}, {}, {"destructive"}>>, <<{}, {}, {"read_only"}>>}
MCRequests ==
    [tools : Discoveries, role : {"none", "evidence", "effector"}, knowledge : BOOLEAN,
     interactive : BOOLEAN, q2 : Answers, followUp : Answers, override : BOOLEAN,
     facades : BOOLEAN]
MCImportIds == {Builtin, <<"mcp", "put">>}
=============================================================================
