----------------------------- MODULE Interview -----------------------------
(***************************************************************************)
(* What decides whether a tool of an MCP server may run without a human:   *)
(* the tool's own annotations, the role given on the command line, or the  *)
(* interview of graffy mcp add (graffy-mcp interview.rs and lib.rs; the    *)
(* questions are asked in main.rs).                                        *)
(*                                                                         *)
(* An answer is whether it is blank and whether it contains, inside longer *)
(* words too, one of the words listed for looking up (reads) or for        *)
(* changing (changes): "I do not know" contains "no", so it reads.         *)
(***************************************************************************)
EXTENDS Naturals

Answers == {a \in [blank : BOOLEAN, reads : BOOLEAN, changes : BOOLEAN] :
               a.blank => ~a.reads /\ ~a.changes}

classify_change_answer(a) ==
    CASE a.reads /\ ~a.changes -> "evidence"
      [] a.changes /\ ~a.reads -> "effector"
      [] OTHER -> "ambiguous"

\* A tool's annotations are the set of those it declares.
Destructive(annotations) == "destructive" \in annotations
ReadOnly(annotations) == "read_only" \in annotations

(***************************************************************************)
(* A request to add a server: the tools discovered, the --role given       *)
(* ("none": not given), whether there is usage knowledge (--knowledge or   *)
(* prompts the server ships), whether --no-interview is absent and         *)
(* standard input is a terminal, and the answers to the second question,   *)
(* its follow-up and the conflict.                                         *)
(***************************************************************************)
Claimed(req) ==
    LET first == classify_change_answer(req.q2)
    IN  IF first = "ambiguous" /\ ~req.q2.blank
        THEN classify_change_answer(req.followUp) ELSE first

false_alignment(claimed, tools) ==
    claimed = "evidence" /\ \E t \in DOMAIN tools : Destructive(tools[t])

resolve_role(claimed, conflict, override) ==
    IF claimed = "evidence" /\ (conflict => override) THEN "evidence" ELSE "effector"

run_usage_interview(req) ==
    IF req.q2.blank THEN "none"
    ELSE resolve_role(Claimed(req), false_alignment(Claimed(req), req.tools), req.override)

ShouldInterview(req) == req.role = "none" /\ ~req.knowledge /\ req.interactive

ServerDefault(req) ==
    LET asked == IF ShouldInterview(req) THEN run_usage_interview(req) ELSE req.role
    IN  IF asked = "none" THEN "effector" ELSE asked

\* Mutant: what the server is trusted with comes before what a tool declares.
SeedByServer(annotations, default) ==
    IF ReadOnly(annotations) \/ default = "evidence" THEN "evidence" ELSE "effector"

seed_role(annotations, default) ==
    IF ~Destructive(annotations) /\ (ReadOnly(annotations) \/ default = "evidence")
    THEN "evidence" ELSE "effector"

-----------------------------------------------------------------------------
(* What it takes to trust a server with its unannotated tools, said        *)
(* without the code's steps: a person named it read-only on the command    *)
(* line, or was asked, spoke of looking up and not of changing in the      *)
(* answer that counts, and overrode the warning if a tool is destructive.  *)

SpeaksOfReadingOnly(a) == a.reads /\ ~a.changes
SpeaksOfChangingOnly(a) == a.changes /\ ~a.reads

Trusted(req) ==
    \/ req.role = "evidence"
    \/ /\ req.role = "none" /\ ~req.knowledge /\ req.interactive /\ ~req.q2.blank
       /\ \/ SpeaksOfReadingOnly(req.q2)
          \/ ~SpeaksOfChangingOnly(req.q2) /\ SpeaksOfReadingOnly(req.followUp)
       /\ req.override \/ \A t \in DOMAIN req.tools : ~Destructive(req.tools[t])
=============================================================================
