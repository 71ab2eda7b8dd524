--------------------------- MODULE RegistryProofs ---------------------------
(***************************************************************************)
(* What the store promises for any number of processes, versions, servers, *)
(* tools, commands and frames, whatever fails and wherever.                *)
(***************************************************************************)
EXTENDS Registry, FiniteSetTheorems, TLAPS

AddJob(j) ==
    /\ j.cmd = "add" /\ j.next \in Nat \ {0}
    /\ \E req \in Requests :
          j.tools = req.tools /\ j.default = ServerDefault(req) /\ j.trusted = Trusted(req)

RegisterJob(j) ==
    /\ j.cmd = "register"
    /\ j.source \in {"imported", "graphified"} /\ j.shape \in {"imported", "unlawful", "floor"}

IndexJob(j, n) == j.cmd = "index" /\ j.run \in 1 .. n

\* The command a process is in, when it is at `place'.
JobFits(place, j, n) ==
    /\ place \in {"idle", "open", "seed", "add", "facades", "register", "resolve",
                  "index", "count", "mirror"}
    /\ place \in {"open", "seed"} =>
          AddJob(j) \/ RegisterJob(j) \/ j.cmd = "resolve" \/ IndexJob(j, n)
    /\ place \in {"add", "facades"} => AddJob(j)
    /\ place = "facades" => j.next <= Len(j.tools)
    /\ place = "register" => RegisterJob(j)
    /\ place \in {"index", "count", "mirror"} => IndexJob(j, n)
    /\ place # "facades" /\ AddJob(j) => j.next = 1

Typed ==
    /\ DOMAIN pc = Procs /\ DOMAIN job = Procs /\ DOMAIN shipped = Procs
    /\ commands \in Nat
    /\ \A p \in Procs : JobFits(pc[p], job[p], commands)

-----------------------------------------------------------------------------
\* A step of one process leaves the others where they are.
LEMMA OthersStay ==
    ASSUME Typed, NEW p \in Procs, Step(p)
    PROVE  /\ DOMAIN pc' = Procs /\ DOMAIN job' = Procs /\ DOMAIN shipped' = Procs
           /\ commands' \in Nat /\ commands' >= commands
           /\ \A q \in Procs \ {p} : pc'[q] = pc[q] /\ job'[q] = job[q]
<1>1. DOMAIN shipped' = Procs
  BY DEF Step, Typed, McpAdd, GraphImport, GraphifyCmd, Resolve, Report, Command, SeedLook,
         SeedWrite, AddRow, AddFacade, Register, GetGraph, RecordRun, CountRun, MirrorFrame,
         Fail, Writes, ghosts
<1>2. commands' = commands \/ commands' = commands + 1
  BY DEF Step, McpAdd, GraphImport, GraphifyCmd, Resolve, Report, Command, SeedLook,
         SeedWrite, AddRow, AddFacade, Register, GetGraph, RecordRun, CountRun, MirrorFrame,
         Fail
<1>3. /\ pc' = pc \/ \E to : Goto(p, to)
      /\ job' = job \/ \E j : job' = [job EXCEPT ![p] = j]
  BY DEF Step, McpAdd, GraphImport, GraphifyCmd, Resolve, Report, Command, SeedLook,
         SeedWrite, AddRow, AddFacade, Register, GetGraph, RecordRun, CountRun, MirrorFrame,
         Fail, At
<1> QED BY <1>1, <1>2, <1>3 DEF Typed, Goto

\* What a process is given to do fits where it starts.
LEMMA CommandFits ==
    ASSUME Typed, NEW p \in Procs, NEW j, Command(p, j),
           \/ AddJob(j) /\ j.next = 1
           \/ RegisterJob(j) \/ j.cmd = "resolve" \/ IndexJob(j, commands')
    PROVE  JobFits(pc'[p], job'[p], commands')
<1>1. pc'[p] = "open" /\ job'[p] = j
  BY DEF Command, Goto, Typed
<1>2. ~AddJob(j) \/ j.next = 1
  BY DEF AddJob, RegisterJob, IndexJob
<1> QED BY <1>1, <1>2 DEF JobFits

LEMMA StepFits ==
    ASSUME Typed, NEW p \in Procs, Step(p)
    PROVE  JobFits(pc'[p], job'[p], commands')
<1> USE DEF Typed
<1>a. JobFits(pc[p], job[p], commands)
  OBVIOUS
<1>n. ~AddJob(NoJob)
  BY DEF AddJob, NoJob
<1>i. JobFits("idle", NoJob, commands')
  BY <1>n DEF JobFits
<1>1. CASE McpAdd(p)
  BY <1>1, CommandFits DEF McpAdd, Discovered, Adding, AddJob
<1>2. CASE GraphImport(p)
  BY <1>2, CommandFits DEF GraphImport, RegisterJob
<1>3. CASE GraphifyCmd(p)
  BY <1>3, CommandFits DEF GraphifyCmd, RegisterJob
<1>4. CASE Resolve(p)
  BY <1>4, CommandFits DEF Resolve
<1>5. CASE Report(p)
  <2> DEFINE j == [cmd |-> "index", run |-> commands + 1]
  <2>1. Command(p, j) /\ commands' = commands + 1
    BY <1>5 DEF Report, Command
  <2>2. IndexJob(j, commands')
    BY <2>1 DEF IndexJob
  <2> HIDE DEF j
  <2> QED BY <2>1, <2>2, CommandFits
<1>6. ASSUME NEW to, At(p, pc[p], to), to # "idle", JobFits(to, job[p], commands),
             commands' = commands
      PROVE  JobFits(pc'[p], job'[p], commands')
  BY <1>6 DEF At, Goto
<1>7. ASSUME NEW from, At(p, from, "idle") PROVE JobFits(pc'[p], job'[p], commands')
  BY <1>7, <1>i DEF At, Goto
<1>8. CASE pc[p] \in {"open", "seed"} /\ commands' = commands
           /\ At(p, pc[p], job[p].cmd)
  <2>1. JobFits(job[p].cmd, job[p], commands) /\ job[p].cmd # "idle"
    BY <1>a, <1>8 DEF JobFits, AddJob, RegisterJob, IndexJob
  <2> QED BY <2>1, <1>6, <1>8
<1>9. CASE SeedLook(p)
  <2>1. pc[p] = "open" /\ JobFits("seed", job[p], commands) /\ commands' = commands
    BY <1>a, <1>9 DEF JobFits, SeedLook, At
  <2>2. At(p, pc[p], job[p].cmd) \/ At(p, pc[p], "seed")
    BY <1>9, <2>1 DEF SeedLook
  <2> QED BY <2>1, <2>2, <1>6, <1>8
<1>10. CASE SeedWrite(p)
  BY <1>10, <1>8 DEF SeedWrite, At
<1>11. CASE AddRow(p)
  <2>1. pc[p] = "add" /\ commands' = commands
    BY <1>11 DEF AddRow, At
  <2>2. HasFacades(p) => JobFits("facades", job[p], commands)
    <3>1. PICK req \in Requests :
            /\ job[p].tools = req.tools /\ job[p].default = ServerDefault(req)
            /\ job[p].trusted = Trusted(req)
      BY <1>a, <2>1 DEF JobFits, AddJob
    <3>2. req.tools # <<>> => 1 <= Len(req.tools)
      BY RequestsAssumption
    <3> QED BY <1>a, <2>1, <3>1, <3>2 DEF JobFits, HasFacades, AddJob
  <2>3. IF HasFacades(p) THEN At(p, pc[p], "facades") ELSE At(p, pc[p], "idle")
    BY <1>11, <2>1 DEF AddRow
  <2> QED BY <2>1, <2>2, <2>3, <1>6, <1>7
<1>12. CASE AddFacade(p)
  <2>1. pc[p] = "facades" /\ commands' = commands
    BY <1>12 DEF AddFacade, InFacades
  <2>2. CASE job[p].next = Len(job[p].tools)
    BY <2>2, <1>12, <1>7 DEF AddFacade
  <2>3. CASE job[p].next # Len(job[p].tools)
    <3>1. PICK req \in Requests :
            /\ job[p].tools = req.tools /\ job[p].default = ServerDefault(req)
            /\ job[p].trusted = Trusted(req)
      BY <1>a, <2>1 DEF JobFits, AddJob
    <3>2. /\ pc'[p] = "facades"
          /\ job'[p] = Adding(job[p].tools, job[p].default, job[p].facades, job[p].trusted,
                              job[p].next + 1)
      BY <1>12, <2>1, <2>3 DEF AddFacade
    <3>3. /\ job'[p].cmd = "add" /\ job'[p].next = job[p].next + 1
          /\ job'[p].tools = job[p].tools /\ job'[p].default = job[p].default
          /\ job'[p].trusted = job[p].trusted
      BY <3>2 DEF Adding
    <3>4. job[p].next + 1 \in Nat \ {0} /\ job[p].next + 1 <= Len(job[p].tools)
      BY <1>a, <2>1, <2>3, <3>1, RequestsAssumption DEF JobFits, AddJob
    <3> QED BY <3>1, <3>2, <3>3, <3>4 DEF JobFits, AddJob
  <2> QED BY <2>2, <2>3
<1>13. CASE Register(p) \/ GetGraph(p) \/ Fail(p)
  BY <1>13, <1>7 DEF Register, GetGraph, Fail
<1>14. ASSUME NEW from \in {"index", "count", "mirror"}, NEW to \in {"count", "mirror"},
              At(p, from, to), commands' = commands
       PROVE  JobFits(pc'[p], job'[p], commands')
  <2>1. JobFits(to, job[p], commands)
    BY <1>a, <1>14 DEF JobFits, At, IndexJob, AddJob
  <2> QED BY <2>1, <1>6, <1>14 DEF At
<1>15. CASE RecordRun(p)
  BY <1>15, <1>14 DEF RecordRun
<1>16. CASE CountRun(p)
  BY <1>16, <1>14 DEF CountRun
<1>17. CASE MirrorFrame(p)
  <2>1. At(p, "mirror", "idle") \/ At(p, "mirror", "mirror")
    BY <1>17 DEF MirrorFrame
  <2>2. commands' = commands
    BY <1>17 DEF MirrorFrame
  <2> QED BY <2>1, <2>2, <1>7, <1>14
<1> QED
  BY <1>1, <1>2, <1>3, <1>4, <1>5, <1>9, <1>10, <1>11, <1>12, <1>13, <1>15, <1>16, <1>17
  DEF Step

LEMMA InitTyped == Init => Typed
  BY DEF Init, Typed, JobFits, AddJob, NoJob

LEMMA NextTyped == Typed /\ [Next]_vars => Typed'
<1> SUFFICES ASSUME Typed, [Next]_vars PROVE Typed'
  OBVIOUS
<1>1. ASSUME NEW p \in Procs, Step(p) PROVE Typed'
  <2>1. \A q \in Procs \ {p} : JobFits(pc'[q], job'[q], commands')
    <3> SUFFICES ASSUME NEW q \in Procs \ {p} PROVE JobFits(pc'[q], job'[q], commands')
      OBVIOUS
    <3>1. JobFits(pc[q], job[q], commands) /\ pc'[q] = pc[q] /\ job'[q] = job[q]
      BY <1>1, OthersStay DEF Typed
    <3>2. IndexJob(job[q], commands) => IndexJob(job[q], commands')
      BY <1>1, OthersStay DEF IndexJob, Typed
    <3> QED BY <3>1, <3>2 DEF JobFits
  <2>2. JobFits(pc'[p], job'[p], commands')
    BY <1>1, StepFits
  <2> QED BY <2>1, <2>2, <1>1, OthersStay DEF Typed
<1>2. CASE UNCHANGED vars
  BY <1>2 DEF vars, store, ghosts, Typed
<1> QED BY <1>1, <1>2 DEF Next

-----------------------------------------------------------------------------
(* The graphs table. *)

\* An upsert writes one row, and only of a graph that compiles.
LEMMA Upserted ==
    ASSUME NEW id, NEW record, register_graph(id, record)
    PROVE  /\ DOMAIN graphs' = DOMAIN graphs \cup {id}
           /\ graphs'[id] = record /\ Lawful[record.shape]
           /\ \A i \in DOMAIN graphs : i # id => graphs'[i] = graphs[i]
BY DEF register_graph

\* The steps that write it.
LEMMA GraphSteps ==
    ASSUME NEW p \in Procs, Step(p)
    PROVE  graphs' = graphs \/ SeedWrite(p) \/ AddFacade(p) \/ Register(p)
BY DEF Step, McpAdd, GraphImport, GraphifyCmd, Resolve, Report, Command, SeedLook,
       AddRow, GetGraph, RecordRun, CountRun, MirrorFrame, Fail, store

\* What they write.
LEMMA WrittenRecord ==
    ASSUME Typed, NEW p \in Procs, Step(p), graphs' # graphs
    PROVE  \/ /\ SeedWrite(p) /\ register_graph(Builtin, BuiltinRecord(p))
           \/ /\ AddFacade(p) /\ AddJob(job[p])
              /\ job[p].next \in DOMAIN job[p].tools
              /\ register_graph(FacadeId(job[p].next), Facade(p, job[p].next))
           \/ /\ Register(p) /\ RegisterJob(job[p])
              /\ register_graph(job[p].id, Record(job[p].source, job[p].shape, 0, {}))
<1>1. CASE SeedWrite(p)
  BY <1>1 DEF SeedWrite
<1>2. CASE AddFacade(p)
  <2>1. JobFits("facades", job[p], commands)
    BY <1>2 DEF Typed, AddFacade, InFacades
  <2>2. AddJob(job[p]) /\ job[p].next \in Nat \ {0} /\ job[p].next <= Len(job[p].tools)
    BY <2>1 DEF JobFits, AddJob
  <2>3. job[p].tools \in Seq(SUBSET {"read_only", "destructive"})
    BY <2>2, RequestsAssumption DEF AddJob
  <2> QED BY <1>2, <2>2, <2>3 DEF AddFacade, WriteFacade
<1>3. CASE Register(p)
  <2>1. JobFits("register", job[p], commands)
    BY <1>3 DEF Typed, Register, At
  <2> QED BY <1>3, <2>1 DEF Register, JobFits
<1> QED BY <1>1, <1>2, <1>3, GraphSteps

LEMMA NextCompile == Typed /\ GraphsCompile /\ [Next]_vars => GraphsCompile'
<1> SUFFICES ASSUME Typed, GraphsCompile, [Next]_vars PROVE GraphsCompile'
  OBVIOUS
<1>1. ASSUME NEW p \in Procs, Step(p), graphs' # graphs PROVE GraphsCompile'
  <2>1. \E id, record : register_graph(id, record)
    BY <1>1, WrittenRecord
  <2>2. PICK id, record : register_graph(id, record)
    BY <2>1
  <2>3. /\ DOMAIN graphs' = DOMAIN graphs \cup {id}
        /\ graphs'[id] = record /\ Lawful[record.shape]
        /\ \A i \in DOMAIN graphs : i # id => graphs'[i] = graphs[i]
    BY <2>2, Upserted
  <2> QED BY <2>3 DEF GraphsCompile
<1>2. CASE graphs' = graphs
  BY <1>2 DEF GraphsCompile
<1> QED BY <1>1, <1>2 DEF Next, vars, store

\* Whoever registers it, a stored graph compiles.
THEOREM StoredGraphsCompile == Spec => []GraphsCompile
<1>1. Init => GraphsCompile
  BY DEF Init, GraphsCompile
<1> QED BY <1>1, InitTyped, NextTyped, NextCompile, PTL DEF Spec

-----------------------------------------------------------------------------
(* Facades and their server. *)

\* Whoever writes facades has written the server's row before.
FacadesInv ==
    /\ FacadesHaveTheirServer
    /\ \A p \in Procs : InFacades(p) => server # {}

\* A server's row is never taken away.
LEMMA ServerStays ==
    ASSUME NEW p \in Procs, Step(p)
    PROVE  server' = server \/ (AddRow(p) /\ server' = {job[p].tools})
BY DEF Step, McpAdd, GraphImport, GraphifyCmd, Resolve, Report, Command, SeedLook, SeedWrite,
       AddRow, AddFacade, Register, GetGraph, RecordRun, CountRun, MirrorFrame, Fail, store

\* The way into the facades is by the server's row.
LEMMA IntoFacades ==
    ASSUME Typed, NEW p \in Procs, Step(p), pc'[p] = "facades"
    PROVE  InFacades(p) \/ AddRow(p)
<1>1. ASSUME NEW from, NEW to, At(p, from, to) PROVE to = "facades"
  BY <1>1, OthersStay DEF At, Goto, Typed
<1>2. JobFits(pc[p], job[p], commands)
  BY DEF Typed
<1>3. ~SeedLook(p) /\ ~SeedWrite(p)
  BY <1>1, <1>2 DEF SeedLook, SeedWrite, At, JobFits, AddJob, RegisterJob, IndexJob
<1>4. ~McpAdd(p) /\ ~GraphImport(p) /\ ~GraphifyCmd(p) /\ ~Resolve(p) /\ ~Report(p)
  BY DEF McpAdd, GraphImport, GraphifyCmd, Resolve, Report, Command, Goto, Typed
<1>5. ~Register(p) /\ ~GetGraph(p) /\ ~RecordRun(p) /\ ~CountRun(p) /\ ~Fail(p)
  BY <1>1 DEF Register, GetGraph, RecordRun, CountRun, Fail
<1>6. ~MirrorFrame(p)
  BY <1>1 DEF MirrorFrame
<1> QED BY <1>3, <1>4, <1>5, <1>6 DEF Step, AddFacade

\* Only mcp add writes facades.
LEMMA NoNewFacade ==
    ASSUME NEW id, NEW record, register_graph(id, record), record.source # "mcp-facade"
    PROVE  /\ FacadeIds' \subseteq FacadeIds
           /\ \A i \in FacadeIds' : graphs'[i] = graphs[i]
<1>1. /\ DOMAIN graphs' = DOMAIN graphs \cup {id} /\ graphs'[id] = record
      /\ \A i \in DOMAIN graphs : i # id => graphs'[i] = graphs[i]
  BY Upserted
<1>2. ASSUME NEW i \in FacadeIds' PROVE i \in FacadeIds /\ graphs'[i] = graphs[i]
  <2>1. i \in DOMAIN graphs' /\ graphs'[i].source = "mcp-facade"
    BY DEF FacadeIds
  <2>2. i # id
    BY <1>1, <2>1
  <2>3. i \in DOMAIN graphs /\ graphs'[i] = graphs[i]
    BY <1>1, <2>1, <2>2
  <2> QED BY <2>1, <2>3 DEF FacadeIds
<1> QED BY <1>2

LEMMA OthersWriteNone ==
    ASSUME Typed, NEW p \in Procs, Step(p), graphs' # graphs, ~AddFacade(p)
    PROVE  /\ FacadeIds' \subseteq FacadeIds
           /\ \A i \in FacadeIds' : graphs'[i] = graphs[i]
<1>1. CASE /\ RegisterJob(job[p])
           /\ register_graph(job[p].id, Record(job[p].source, job[p].shape, 0, {}))
  <2> DEFINE record == Record(job[p].source, job[p].shape, 0, {})
  <2>1. record.source # "mcp-facade"
    BY <1>1 DEF Record, RegisterJob
  <2>2. register_graph(job[p].id, record)
    BY <1>1
  <2> HIDE DEF record
  <2> QED BY <2>1, <2>2, NoNewFacade
<1>2. CASE register_graph(Builtin, BuiltinRecord(p))
  <2>1. BuiltinRecord(p).source # "mcp-facade"
    BY DEF BuiltinRecord, Record
  <2> QED BY <1>2, <2>1, NoNewFacade
<1> QED BY <1>1, <1>2, WrittenRecord

LEMMA NextFacades == Typed /\ FacadesInv /\ [Next]_vars => FacadesInv'
<1> SUFFICES ASSUME Typed, FacadesInv, [Next]_vars PROVE FacadesInv'
  OBVIOUS
<1>1. ASSUME NEW p \in Procs, Step(p) PROVE FacadesInv'
  <2>1. server # {} => server' # {}
    BY <1>1, ServerStays
  <2>2. ASSUME NEW q \in Procs, InFacades(q)' PROVE server' # {}
    <3>1. CASE q = p
      BY <1>1, <2>1, <2>2, <3>1, IntoFacades DEF AddRow, FacadesInv, InFacades
    <3>2. CASE q # p
      BY <1>1, <2>1, <2>2, <3>2, OthersStay DEF FacadesInv, InFacades
    <3> QED BY <3>1, <3>2
  <2>3. FacadesHaveTheirServer'
    <3>1. CASE graphs' = graphs
      BY <2>1, <3>1 DEF FacadesInv, FacadesHaveTheirServer, FacadeIds
    <3>2. CASE AddFacade(p)
      BY <2>1, <3>2 DEF AddFacade, FacadesInv, FacadesHaveTheirServer
    <3>3. CASE graphs' # graphs /\ ~AddFacade(p)
      BY <1>1, <2>1, <3>3, OthersWriteNone DEF FacadesInv, FacadesHaveTheirServer
    <3> QED BY <3>1, <3>2, <3>3
  <2> QED BY <2>2, <2>3 DEF FacadesInv
<1>2. CASE UNCHANGED vars
  BY <1>2 DEF vars, store, FacadesInv, FacadesHaveTheirServer, FacadeIds, InFacades
<1> QED BY <1>1, <1>2 DEF Next

\* No facade without its server's row, whatever fails and whoever interferes.
THEOREM FacadesKeepTheirServer == Spec => []FacadesHaveTheirServer
<1>1. Init => FacadesInv
  BY DEF Init, FacadesInv, FacadesHaveTheirServer, FacadeIds, InFacades
<1>2. FacadesInv => FacadesHaveTheirServer
  BY DEF FacadesInv
<1> QED BY <1>1, <1>2, InitTyped, NextTyped, NextFacades, PTL DEF Spec

-----------------------------------------------------------------------------
(* Gates. *)

\* The steps of the interview and the flags come to trust a server only when
\* somebody said so.
LEMMA TrustIsEarned ==
    ASSUME NEW req \in Requests, ServerDefault(req) = "evidence"
    PROVE  Trusted(req)
<1>1. CASE ShouldInterview(req)
  <2>1. run_usage_interview(req) = "evidence"
    BY <1>1 DEF ServerDefault
  <2>2. /\ ~req.q2.blank
        /\ resolve_role(Claimed(req), false_alignment(Claimed(req), req.tools), req.override)
             = "evidence"
    BY <2>1 DEF run_usage_interview
  <2>3. /\ Claimed(req) = "evidence"
        /\ false_alignment(Claimed(req), req.tools) => req.override
    BY <2>2 DEF resolve_role
  <2>4. \/ SpeaksOfReadingOnly(req.q2)
        \/ ~SpeaksOfChangingOnly(req.q2) /\ SpeaksOfReadingOnly(req.followUp)
    <3>1. CASE classify_change_answer(req.q2) = "ambiguous"
      BY <2>2, <2>3, <3>1 DEF Claimed, classify_change_answer, SpeaksOfReadingOnly,
                              SpeaksOfChangingOnly
    <3>2. CASE classify_change_answer(req.q2) # "ambiguous"
      BY <2>3, <3>2 DEF Claimed, classify_change_answer, SpeaksOfReadingOnly
    <3> QED BY <3>1, <3>2
  <2>5. req.override \/ \A t \in DOMAIN req.tools : ~Destructive(req.tools[t])
    BY <2>3 DEF false_alignment
  <2> QED BY <1>1, <2>2, <2>4, <2>5 DEF ShouldInterview, Trusted
<1>2. CASE ~ShouldInterview(req)
  BY <1>2 DEF ServerDefault, Trusted
<1> QED BY <1>1, <1>2

LEMMA SeededRole ==
    ASSUME NEW annotations, NEW default, seed_role(annotations, default) # "effector"
    PROVE  /\ ~Destructive(annotations)
           /\ ReadOnly(annotations) \/ default = "evidence"
BY DEF seed_role

\* What one facade says of its gate is what its tool declares and what the
\* server is trusted with.
LEMMA FacadeIsGated ==
    ASSUME NEW p \in Procs, AddJob(job[p]), NEW t \in DOMAIN job[p].tools,
           Facade(p, t).shape = "open"
    PROVE  /\ "destructive" \notin Facade(p, t).why
           /\ Facade(p, t).why \cap {"read_only", "trusted"} # {}
<1>1. PICK req \in Requests :
        /\ job[p].tools = req.tools /\ job[p].default = ServerDefault(req)
        /\ job[p].trusted = Trusted(req)
  BY DEF AddJob
<1>2. seed_role(job[p].tools[t], job[p].default) # "effector"
  BY DEF Facade, Record
<1>3. /\ "destructive" \notin job[p].tools[t]
      /\ "read_only" \in job[p].tools[t] \/ ServerDefault(req) = "evidence"
  BY <1>1, <1>2, SeededRole DEF Destructive, ReadOnly
<1>4. Facade(p, t).why = job[p].tools[t] \cup (IF job[p].trusted THEN {"trusted"} ELSE {})
  BY DEF Facade, Record
<1> QED BY <1>1, <1>3, <1>4, TrustIsEarned

LEMMA NextGated == Typed /\ UngatedToolsWereTrusted /\ [Next]_vars => UngatedToolsWereTrusted'
<1> SUFFICES ASSUME Typed, UngatedToolsWereTrusted, [Next]_vars
             PROVE  UngatedToolsWereTrusted'
  OBVIOUS
<1>1. ASSUME NEW p \in Procs, Step(p), graphs' # graphs PROVE UngatedToolsWereTrusted'
  <2>1. CASE AddFacade(p)
    <3>1. /\ AddJob(job[p]) /\ job[p].next \in DOMAIN job[p].tools
          /\ register_graph(FacadeId(job[p].next), Facade(p, job[p].next))
      BY <1>1, <2>1, WrittenRecord DEF AddFacade, InFacades, SeedWrite, Register, At
    <3> DEFINE id == FacadeId(job[p].next)
               record == Facade(p, job[p].next)
    <3>2. record.shape = "open" =>
            /\ "destructive" \notin record.why
            /\ record.why \cap {"read_only", "trusted"} # {}
      BY <3>1, FacadeIsGated
    <3>3. /\ DOMAIN graphs' = DOMAIN graphs \cup {id} /\ graphs'[id] = record
          /\ \A i \in DOMAIN graphs : i # id => graphs'[i] = graphs[i]
      BY <3>1, Upserted
    <3> HIDE DEF id, record
    <3> QED BY <3>2, <3>3 DEF UngatedToolsWereTrusted, FacadeIds
  <2>2. CASE ~AddFacade(p)
    BY <1>1, <2>2, OthersWriteNone DEF UngatedToolsWereTrusted
  <2> QED BY <2>1, <2>2
<1>2. CASE graphs' = graphs
  BY <1>2 DEF UngatedToolsWereTrusted, FacadeIds
<1> QED BY <1>1, <1>2 DEF Next, vars, store

\* A tool that runs without a human declared itself read-only, or somebody
\* trusted its server; and it did not declare itself destructive.
THEOREM GatesAreKept == Spec => []UngatedToolsWereTrusted
<1>1. Init => UngatedToolsWereTrusted
  BY DEF Init, UngatedToolsWereTrusted, FacadeIds
<1> QED BY <1>1, InitTyped, NextTyped, NextGated, PTL DEF Spec

-----------------------------------------------------------------------------
(* The graph a binary ships. *)

\* A built-in's id holds a record that some binary seeded, or an import.
BuiltinInv ==
    /\ Stored(Builtin) /\ graphs[Builtin].shape \in {"conversation", "old_conversation"} =>
          graphs[Builtin] = Record("builtin", graphs[Builtin].shape, 0, {})
    /\ \A p \in Procs : pc[p] = "resolve" /\ shipped[p] =>
          Stored(Builtin) /\ graphs[Builtin] = BuiltinRecord(p)

\* Facades have ids of their own.
LEMMA FacadesAreElsewhere == \A t : FacadeId(t) # Builtin /\ FacadeId(t)[1] = "mcp"
  BY DEF FacadeId, Builtin

\* A process that comes to resolve has just looked, or has just seeded.
LEMMA IntoResolve ==
    ASSUME Typed, NEW p \in Procs, Step(p), pc'[p] = "resolve"
    PROVE  SeedWrite(p) \/ (SeedLook(p) /\ UpToDate(p))
<1>1. ASSUME NEW from, NEW to, At(p, from, to) PROVE to = "resolve"
  BY <1>1, OthersStay DEF At, Goto, Typed
<1>2. ~McpAdd(p) /\ ~GraphImport(p) /\ ~GraphifyCmd(p) /\ ~Resolve(p) /\ ~Report(p)
  BY DEF McpAdd, GraphImport, GraphifyCmd, Resolve, Report, Command, Goto, Typed
<1>3. ~Register(p) /\ ~GetGraph(p) /\ ~RecordRun(p) /\ ~CountRun(p) /\ ~Fail(p)
  BY <1>1 DEF Register, GetGraph, RecordRun, CountRun, Fail
<1>4. ~MirrorFrame(p) /\ ~AddRow(p)
  BY <1>1 DEF MirrorFrame, AddRow
<1>5. ~AddFacade(p)
  BY <1>1 DEF AddFacade, InFacades
<1>6. SeedLook(p) => UpToDate(p)
  BY <1>1 DEF SeedLook
<1> QED BY <1>2, <1>3, <1>4, <1>5, <1>6 DEF Step

LEMMA NextBuiltin == Typed /\ BuiltinInv /\ [Next]_vars => BuiltinInv'
<1> SUFFICES ASSUME Typed, BuiltinInv, [Next]_vars PROVE BuiltinInv'
  OBVIOUS
<1> USE VersionAssumption
<1>1. ASSUME NEW p \in Procs, SeedWrite(p) PROVE BuiltinInv'
  <2>1. /\ Builtin \in DOMAIN graphs' /\ graphs'[Builtin] = BuiltinRecord(p)
    BY <1>1, Upserted DEF SeedWrite
  <2>2. \A q \in Procs : shipped'[q] => q = p
    BY <1>1 DEF SeedWrite, Writes
  <2> QED BY <2>1, <2>2 DEF BuiltinInv, BuiltinRecord, Record, Stored
<1>2. ASSUME NEW p \in Procs, Register(p) PROVE BuiltinInv'
  <2> DEFINE record == Record(job[p].source, job[p].shape, 0, {})
  <2>0. Step(p)
    BY <1>2 DEF Step
  <2>1. RegisterJob(job[p])
    BY <1>2 DEF Typed, Register, At, JobFits
  <2>2. /\ DOMAIN graphs' = DOMAIN graphs \cup {job[p].id} /\ graphs'[job[p].id] = record
        /\ \A i \in DOMAIN graphs : i # job[p].id => graphs'[i] = graphs[i]
    BY <1>2, Upserted DEF Register
  <2>3. record.shape \notin {"conversation", "old_conversation"}
    BY <2>1 DEF RegisterJob, Record
  <2> HIDE DEF record
  <2>4. CASE job[p].id = Builtin
    <3>1. \A q \in Procs : ~shipped'[q]
      BY <1>2, <2>4 DEF Register, Writes
    <3> QED BY <2>2, <2>3, <2>4, <3>1 DEF BuiltinInv, Stored
  <2>5. CASE job[p].id # Builtin
    <3>1. shipped' = shipped
      BY <1>2, <2>5 DEF Register, Writes
    <3>2. \A q \in Procs : pc'[q] = "resolve" => pc[q] = "resolve"
      BY <1>2, <2>0, IntoResolve, OthersStay DEF Register, At, SeedWrite, SeedLook
    <3> QED BY <2>2, <2>5, <3>1, <3>2 DEF BuiltinInv, Stored, BuiltinRecord
  <2> QED BY <2>4, <2>5
<1>3. ASSUME NEW p \in Procs, Step(p), ~SeedWrite(p), ~Register(p) PROVE BuiltinInv'
  <2>1. /\ Stored(Builtin)' = Stored(Builtin)
        /\ Stored(Builtin) => graphs'[Builtin] = graphs[Builtin]
    <3>1. CASE graphs' = graphs
      BY <3>1 DEF Stored
    <3>2. CASE graphs' # graphs
      <4>1. register_graph(FacadeId(job[p].next), Facade(p, job[p].next))
        BY <1>3, <3>2, WrittenRecord
      <4> DEFINE id == FacadeId(job[p].next)
      <4>2. id # Builtin
        BY FacadesAreElsewhere
      <4>3. /\ DOMAIN graphs' = DOMAIN graphs \cup {id}
            /\ \A i \in DOMAIN graphs : i # id => graphs'[i] = graphs[i]
        BY <4>1, Upserted
      <4> HIDE DEF id
      <4> QED BY <4>2, <4>3 DEF Stored
    <3> QED BY <3>1, <3>2
  <2>2. ASSUME NEW q \in Procs, pc'[q] = "resolve", shipped'[q]
        PROVE  Stored(Builtin) /\ graphs[Builtin] = BuiltinRecord(q)
    <3>1. CASE q = p
      <4>1. UpToDate(p)
        BY <1>3, <2>2, <3>1, IntoResolve
      <4> QED BY <3>1, <4>1 DEF UpToDate, BuiltinInv, BuiltinRecord
    <3>2. CASE q # p
      <4>1. shipped'[q] = shipped[q]
        BY <1>3, <3>2 DEF Step, Typed, McpAdd, GraphImport, GraphifyCmd, Resolve, Report,
           Command, SeedLook, AddRow, AddFacade, GetGraph, RecordRun, CountRun, MirrorFrame,
           Fail, ghosts
      <4> QED BY <1>3, <2>2, <3>2, <4>1, OthersStay DEF BuiltinInv
    <3> QED BY <3>1, <3>2
  <2> QED BY <2>1, <2>2 DEF BuiltinInv, BuiltinRecord
<1>4. CASE UNCHANGED vars
  BY <1>4 DEF vars, store, ghosts, BuiltinInv, Stored, BuiltinRecord
<1> QED BY <1>1, <1>2, <1>3, <1>4 DEF Next

\* What a binary resolves under a built-in's id is what it ships, unless
\* somebody wrote it after this binary saw to it.
THEOREM BuiltinsAreShipped == Spec => []ResolvedBuiltinIsShipped
<1>1. Init => BuiltinInv
  BY DEF Init, BuiltinInv, Stored
<1>2. BuiltinInv => ResolvedBuiltinIsShipped
  BY DEF BuiltinInv, ResolvedBuiltinIsShipped
<1> QED BY <1>1, <1>2, InitTyped, NextTyped, NextBuiltin, PTL DEF Spec

-----------------------------------------------------------------------------
(* Runs, their count and their mirrored events. *)

\* A run on its way into the store, of which it knows nothing yet.
Pending(p) == pc[p] \in {"open", "seed", "index"} /\ job[p].cmd = "index"

CountInv ==
    /\ runs \subseteq 1 .. commands /\ counted \in Nat /\ lost \in Nat
    /\ \A p \in Procs : Pending(p) => job[p].run \notin runs
    /\ \A p, q \in Procs : p # q /\ Pending(p) /\ Pending(q) => job[p].run # job[q].run
    /\ CountMatchesRuns

\* The steps that leave runs and counts alone.
LEMMA AsideSteps ==
    ASSUME Typed, lost \in Nat, NEW p \in Procs, Step(p), ~RecordRun(p), ~CountRun(p),
           ~(Fail(p) /\ pc[p] = "count")
    PROVE  pc[p] # "count" /\ pc'[p] # "count" /\ UNCHANGED <<runs, counted, lost>>
<1>1. ASSUME NEW from, NEW to, At(p, from, to) PROVE pc[p] = from /\ pc'[p] = to
  BY <1>1, OthersStay DEF At, Goto, Typed
<1>2. JobFits(pc[p], job[p], commands)
  BY DEF Typed
<1>3. CASE McpAdd(p) \/ GraphImport(p) \/ GraphifyCmd(p) \/ Resolve(p) \/ Report(p)
  BY <1>3 DEF McpAdd, GraphImport, GraphifyCmd, Resolve, Report, Command, Goto, Typed,
              store, ghosts
<1>4. CASE SeedLook(p) \/ SeedWrite(p)
  <2>1. /\ pc[p] \in {"open", "seed"} /\ pc'[p] \in {"seed", job[p].cmd}
        /\ UNCHANGED <<runs, counted, lost>>
    BY <1>1, <1>4 DEF SeedLook, SeedWrite, store
  <2> QED BY <1>2, <2>1 DEF JobFits, AddJob, RegisterJob, IndexJob
<1>5. CASE AddRow(p) \/ Register(p) \/ GetGraph(p)
  BY <1>1, <1>5 DEF AddRow, Register, GetGraph, store, ghosts
<1>6. CASE AddFacade(p)
  BY <1>1, <1>6 DEF AddFacade, InFacades, ghosts
<1>7. CASE MirrorFrame(p)
  BY <1>1, <1>7 DEF MirrorFrame, ghosts
<1>8. CASE Fail(p)
  BY <1>1, <1>8 DEF Fail, store
<1> QED BY <1>3, <1>4, <1>5, <1>6, <1>7, <1>8 DEF Step

\* A run becomes pending when it ends, with a number that is new.
LEMMA NewlyPending ==
    ASSUME Typed, NEW p \in Procs, Step(p), Pending(p)'
    PROVE  \/ /\ job'[p].run = commands + 1 /\ commands' = commands + 1
              /\ pc[p] = "idle"
           \/ /\ Pending(p) /\ job'[p].run = job[p].run
<1>1. ASSUME NEW from, NEW to, At(p, from, to)
      PROVE  pc[p] = from /\ pc'[p] = to /\ (to # "idle" => job' = job)
  BY <1>1, OthersStay DEF At, Goto, Typed
<1>2. CASE McpAdd(p) \/ GraphImport(p) \/ GraphifyCmd(p) \/ Resolve(p)
  BY <1>2 DEF McpAdd, GraphImport, GraphifyCmd, Resolve, Command, Discovered, Adding,
              Pending, Typed
<1>3. CASE Report(p)
  BY <1>3 DEF Report, Command, Typed
<1>4. CASE SeedLook(p) \/ SeedWrite(p)
  <2>1. pc[p] \in {"open", "seed"}
    BY <1>1, <1>4 DEF SeedLook, SeedWrite
  <2>2. job' = job
    BY <1>1, <1>4, <2>1 DEF SeedLook, SeedWrite, Pending
  <2> QED BY <2>1, <2>2 DEF Pending
<1>5. CASE AddRow(p) \/ Register(p) \/ GetGraph(p) \/ Fail(p)
  BY <1>1, <1>5 DEF AddRow, Register, GetGraph, Fail, Pending
<1>6. CASE AddFacade(p)
  BY <1>1, <1>6 DEF AddFacade, InFacades, Pending
<1>7. CASE RecordRun(p) \/ CountRun(p) \/ MirrorFrame(p)
  BY <1>1, <1>7 DEF RecordRun, CountRun, MirrorFrame, Pending
<1> QED BY <1>2, <1>3, <1>4, <1>5, <1>6, <1>7 DEF Step

LEMMA PendingRuns ==
    ASSUME Typed, NEW p \in Procs, Pending(p)
    PROVE  job[p].run \in 1 .. commands
BY DEF Typed, Pending, JobFits, AddJob, RegisterJob, IndexJob

LEMMA NextCount == Typed /\ CountInv /\ [Next]_vars => CountInv'
<1> SUFFICES ASSUME Typed, CountInv, [Next]_vars PROVE CountInv'
  OBVIOUS
<1>0. /\ IsFiniteSet(runs) /\ Cardinality(runs) \in Nat
      /\ IsFiniteSet(Counting) /\ Cardinality(Counting) \in Nat
  <2>1. IsFiniteSet(1 .. commands)
    BY FS_Interval DEF Typed
  <2>2. IsFiniteSet(runs)
    BY <2>1, FS_Subset DEF CountInv
  <2>3. Counting \in SUBSET Procs
    BY DEF Counting
  <2>4. IsFiniteSet(Counting)
    BY <2>3, FS_Subset, ProcsAssumption
  <2> QED BY <2>2, <2>4, FS_CardinalityType
<1>1. ASSUME NEW p \in Procs, Step(p) PROVE CountInv'
  <2>1. CASE RecordRun(p)
    <3>1. /\ pc[p] = "index" /\ pc'[p] = "count" /\ job' = job /\ commands' = commands
          /\ runs' = runs \cup {job[p].run} /\ UNCHANGED <<counted, lost>>
      BY <2>1, OthersStay, <1>1 DEF RecordRun, At, Goto, Typed, ghosts
    <3>2. Pending(p)
      BY <3>1 DEF Pending, Typed, JobFits, IndexJob
    <3>3. job[p].run \in 1 .. commands /\ job[p].run \notin runs
      BY <3>2, PendingRuns DEF CountInv
    <3>4. Counting' = Counting \cup {p} /\ p \notin Counting
      BY <1>1, <3>1, OthersStay DEF Counting
    <3>5. /\ Cardinality(runs') = Cardinality(runs) + 1
          /\ Cardinality(Counting') = Cardinality(Counting) + 1
      BY <1>0, <3>1, <3>3, <3>4, FS_AddElement
    <3>6. CountMatchesRuns'
      BY <1>0, <3>1, <3>5 DEF CountInv, CountMatchesRuns
    <3>7. \A q \in Procs : Pending(q)' => q # p /\ Pending(q)
      BY <1>1, <3>1, OthersStay DEF Pending
    <3> QED BY <3>1, <3>2, <3>3, <3>6, <3>7 DEF CountInv
  <2>2. CASE CountRun(p) \/ (Fail(p) /\ pc[p] = "count")
    <3>0. /\ pc[p] = "count" /\ pc'[p] \in {"mirror", "idle"} /\ commands' = commands
          /\ runs' = runs
          /\ \/ counted' = counted + 1 /\ lost' = lost
             \/ counted' = counted /\ lost' = lost + 1
      <4>1. CASE CountRun(p)
        BY <4>1 DEF CountRun, Upsert, At, Goto, Typed, ghosts
      <4>2. CASE Fail(p) /\ pc[p] = "count"
        <5>1. lost' = lost + 1 /\ counted' = counted /\ runs' = runs /\ commands' = commands
          BY <4>2 DEF Fail, store
        <5> QED BY <4>2, <5>1 DEF Fail, At, Goto, Typed
      <4> QED BY <2>2, <4>1, <4>2
    <3>1. /\ pc[p] = "count" /\ pc'[p] # "count" /\ ~Pending(p)' /\ commands' = commands
          /\ runs' = runs /\ counted' + lost' = counted + lost + 1
          /\ counted' \in Nat /\ lost' \in Nat
      BY <3>0 DEF CountInv, Pending
    <3>2. Counting' = Counting \ {p} /\ p \in Counting
      BY <1>1, <3>1, OthersStay DEF Counting
    <3>3. Cardinality(Counting') = Cardinality(Counting) - 1
      BY <1>0, <3>2, FS_RemoveElement
    <3>4. CountMatchesRuns'
      <4>1. counted + Cardinality(Counting) + lost = Cardinality(runs)
        BY DEF CountInv, CountMatchesRuns
      <4>2. counted' + Cardinality(Counting') + lost' = Cardinality(runs')
        BY <4>1, <1>0, <3>0, <3>3 DEF CountInv
      <4> QED BY <4>2 DEF CountMatchesRuns
    <3>5. \A q \in Procs : Pending(q)' => q # p /\ Pending(q) /\ job'[q] = job[q]
      BY <1>1, <3>1, OthersStay DEF Pending
    <3> QED BY <3>1, <3>4, <3>5 DEF CountInv
  <2>3. CASE ~RecordRun(p) /\ ~CountRun(p) /\ ~(Fail(p) /\ pc[p] = "count")
    <3>1. pc[p] # "count" /\ pc'[p] # "count" /\ UNCHANGED <<runs, counted, lost>>
      BY <1>1, <2>3, AsideSteps DEF CountInv
    <3>2. Counting' = Counting
      BY <1>1, <3>1, OthersStay DEF Counting
    <3>3. \A q \in Procs \ {p} : Pending(q)' => Pending(q) /\ job'[q] = job[q]
      BY <1>1, OthersStay DEF Pending
    <3>4. runs' \subseteq 1 .. commands'
      BY <1>1, <3>1, OthersStay DEF CountInv, Typed
    <3>5. Pending(p)' => job'[p].run \notin runs
      <4>1. commands + 1 \notin 1 .. commands
        BY DEF Typed
      <4> QED BY <1>1, <4>1, NewlyPending DEF CountInv
    <3>6. \A q \in Procs \ {p} :
            Pending(p)' /\ Pending(q)' => job'[p].run # job'[q].run
      <4> SUFFICES ASSUME NEW q \in Procs \ {p}, Pending(p)', Pending(q)'
                   PROVE  job'[p].run # job'[q].run
        OBVIOUS
      <4>1. Pending(q) /\ job'[q].run = job[q].run /\ job[q].run \in 1 .. commands
        BY <3>3, PendingRuns
      <4>2. commands + 1 \notin 1 .. commands
        BY DEF Typed
      <4> QED BY <1>1, <4>1, <4>2, NewlyPending DEF CountInv
    <3> QED BY <3>1, <3>2, <3>3, <3>4, <3>5, <3>6 DEF CountInv, CountMatchesRuns
  <2> QED BY <2>1, <2>2, <2>3
<1>2. CASE UNCHANGED vars
  BY <1>2 DEF vars, store, ghosts, CountInv, CountMatchesRuns, Counting, Pending
<1> QED BY <1>1, <1>2 DEF Next

\* The session's count never drifts from its runs, for any number of
\* processes that index at once and wherever they fail.
THEOREM CountIsExact == Spec => []CountMatchesRuns
<1>1. Init => CountInv
  BY FS_EmptySet DEF Init, CountInv, CountMatchesRuns, Counting, Pending
<1>2. CountInv => CountMatchesRuns
  BY DEF CountInv
<1> QED BY <1>1, <1>2, InitTyped, NextTyped, NextCount, PTL DEF Spec

\* The events of a run are its first ones, and the run has its row.
MirrorInv ==
    /\ \A e \in mirrored : e[1] \in runs
    /\ \A run : \E n \in Nat : EventsOf(run) = {<<run, s>> : s \in 1 .. n}
    /\ \A p \in Procs : pc[p] \in {"count", "mirror"} => job[p].run \in runs

\* The next frame of a run is the one after those that are there.
LEMMA NextFrameFollows ==
    ASSUME NEW run, NEW n \in Nat, EventsOf(run) = {<<run, s>> : s \in 1 .. n}
    PROVE  NextFrame(run) = n + 1
<1> DEFINE f == [s \in 1 .. n |-> <<run, s>>]
<1>1. f \in Bijection(1 .. n, EventsOf(run))
  BY DEF Bijection, Injection, Surjection, IsInjective
<1>2. ExistsBijection(1 .. n, EventsOf(run))
  BY <1>1 DEF ExistsBijection
<1>3. IsFiniteSet(1 .. n) /\ Cardinality(1 .. n) = n
  BY FS_Interval
<1>4. Cardinality(EventsOf(run)) = n
  BY <1>2, <1>3, FS_Bijection
<1> QED BY <1>4 DEF NextFrame

\* A process that counts or mirrors has recorded its run.
LEMMA IntoMirror ==
    ASSUME Typed, NEW p \in Procs, Step(p), pc'[p] \in {"count", "mirror"}
    PROVE  /\ job'[p] = job[p]
           /\ RecordRun(p) \/ pc[p] \in {"count", "mirror"}
<1>1. ASSUME NEW from, NEW to, At(p, from, to)
      PROVE  pc[p] = from /\ pc'[p] = to /\ (to # "idle" => job' = job)
  BY <1>1, OthersStay DEF At, Goto, Typed
<1>2. JobFits(pc[p], job[p], commands)
  BY DEF Typed
<1>3. ~SeedLook(p) /\ ~SeedWrite(p)
  BY <1>1, <1>2 DEF SeedLook, SeedWrite, JobFits, AddJob, RegisterJob, IndexJob
<1>4. ~McpAdd(p) /\ ~GraphImport(p) /\ ~GraphifyCmd(p) /\ ~Resolve(p) /\ ~Report(p)
  BY DEF McpAdd, GraphImport, GraphifyCmd, Resolve, Report, Command, Goto, Typed
<1>5. ~Register(p) /\ ~GetGraph(p) /\ ~AddRow(p) /\ ~Fail(p)
  BY <1>1 DEF Register, GetGraph, AddRow, Fail
<1>6. ~AddFacade(p)
  BY <1>1 DEF AddFacade, InFacades
<1>7. CASE RecordRun(p) \/ CountRun(p) \/ MirrorFrame(p)
  BY <1>1, <1>7 DEF RecordRun, CountRun, MirrorFrame
<1> QED BY <1>3, <1>4, <1>5, <1>6, <1>7 DEF Step

\* Only index_run writes events, and runs are never taken out.
LEMMA MirrorSteps ==
    ASSUME NEW p \in Procs, Step(p)
    PROVE  /\ mirrored' = mirrored \/ MirrorFrame(p)
           /\ runs \subseteq runs'
BY DEF Step, McpAdd, GraphImport, GraphifyCmd, Resolve, Report, Command, SeedLook, SeedWrite,
       AddRow, AddFacade, Register, GetGraph, RecordRun, CountRun, MirrorFrame, Fail, store

LEMMA NextMirror == Typed /\ MirrorInv /\ [Next]_vars => MirrorInv'
<1> SUFFICES ASSUME Typed, MirrorInv, [Next]_vars PROVE MirrorInv'
  OBVIOUS
<1>1. ASSUME NEW p \in Procs, Step(p) PROVE MirrorInv'
  <2>1. ASSUME NEW q \in Procs, pc'[q] \in {"count", "mirror"} PROVE job'[q].run \in runs'
    <3>1. CASE q = p /\ RecordRun(p)
      BY <1>1, <2>1, <3>1, IntoMirror DEF RecordRun
    <3>2. CASE q = p /\ ~RecordRun(p)
      BY <1>1, <2>1, <3>2, IntoMirror, MirrorSteps DEF MirrorInv
    <3>3. CASE q # p
      BY <1>1, <2>1, <3>3, OthersStay, MirrorSteps DEF MirrorInv
    <3> QED BY <3>1, <3>2, <3>3
  <2>2. CASE mirrored' = mirrored
    BY <1>1, <2>1, <2>2, MirrorSteps DEF MirrorInv, EventsOf
  <2>3. CASE MirrorFrame(p)
    <3>0. PICK mine : mine = job[p].run
      OBVIOUS
    <3>1. PICK n \in Nat : EventsOf(mine) = {<<mine, s>> : s \in 1 .. n}
      BY DEF MirrorInv
    <3>2. mirrored' = mirrored \cup {<<mine, n + 1>>}
      BY <2>3, <3>0, <3>1, NextFrameFollows DEF MirrorFrame
    <3>3. mine \in runs
      BY <2>3, <3>0 DEF MirrorFrame, At, MirrorInv
    <3>4. \A e \in mirrored' : e[1] \in runs'
      BY <1>1, <3>2, <3>3, MirrorSteps DEF MirrorInv
    <3>5. EventsOf(mine)' = {<<mine, s>> : s \in 1 .. (n + 1)}
      <4>1. EventsOf(mine)' = EventsOf(mine) \cup {<<mine, n + 1>>}
        BY <3>2 DEF EventsOf
      <4>2. 1 .. (n + 1) = (1 .. n) \cup {n + 1}
        OBVIOUS
      <4> QED BY <3>1, <4>1, <4>2
    <3>6. \A run : run # mine => EventsOf(run)' = EventsOf(run)
      BY <3>2 DEF EventsOf
    <3>7. \A run : \E k \in Nat : EventsOf(run)' = {<<run, s>> : s \in 1 .. k}
      <4> SUFFICES ASSUME NEW run
                   PROVE  \E k \in Nat : EventsOf(run)' = {<<run, s>> : s \in 1 .. k}
        OBVIOUS
      <4>1. CASE run = mine
        <5>1. n + 1 \in Nat
          OBVIOUS
        <5> QED BY <3>5, <4>1, <5>1
      <4>2. CASE run # mine
        BY <3>6, <4>2 DEF MirrorInv
      <4> QED BY <4>1, <4>2
    <3> QED BY <2>1, <3>4, <3>7 DEF MirrorInv
  <2> QED BY <1>1, <2>2, <2>3, MirrorSteps
<1>2. CASE UNCHANGED vars
  BY <1>2 DEF vars, store, MirrorInv, EventsOf
<1> QED BY <1>1, <1>2 DEF Next

\* Whatever fails, the store mirrors the beginning of a journal without a gap,
\* and only of runs it lists.
THEOREM MirrorIsAPrefix == Spec => []MirrorFollowsRuns
<1>1. Init => MirrorInv
  <2> SUFFICES ASSUME Init PROVE MirrorInv
    OBVIOUS
  <2>1. \A run : EventsOf(run) = {<<run, s>> : s \in 1 .. 0}
    BY DEF Init, EventsOf
  <2> QED BY <2>1 DEF Init, MirrorInv
<1>2. MirrorInv => MirrorFollowsRuns
  <2> SUFFICES ASSUME MirrorInv, NEW e \in mirrored
               PROVE  e[1] \in runs /\ \A s \in 1 .. e[2] : <<e[1], s>> \in mirrored
    BY DEF MirrorFollowsRuns
  <2>1. PICK n \in Nat : EventsOf(e[1]) = {<<e[1], s>> : s \in 1 .. n}
    BY DEF MirrorInv
  <2>2. e \in EventsOf(e[1])
    BY DEF EventsOf
  <2>3. PICK k \in 1 .. n : e = <<e[1], k>>
    BY <2>1, <2>2
  <2>4. e[2] = k
    BY <2>3
  <2>5. \A s \in 1 .. k : <<e[1], s>> \in EventsOf(e[1])
    BY <2>1
  <2> QED BY <2>4, <2>5 DEF MirrorInv, EventsOf
<1> QED BY <1>1, <1>2, InitTyped, NextTyped, NextMirror, PTL DEF Spec

-----------------------------------------------------------------------------
(* An undisturbed mcp add. *)

IsFacadeOf(g, tools, t) ==
    /\ g.source = "mcp-facade" /\ g.tool \in DOMAIN tools
    /\ Slug[g.tool] = Slug[t]
    /\ Destructive(tools[g.tool]) => g.shape = "gated"

\* The facades of the first k tools are there.
UpTo(tools, k) ==
    \A t \in 1 .. k : Stored(FacadeId(t)) /\ IsFacadeOf(graphs[FacadeId(t)], tools, t)

WholeInv ==
    sole # "none" =>
        /\ sole \in Procs
        /\ \A q \in Procs : InFacades(q) => q = sole
        /\ InFacades(sole) =>
              /\ server = {job[sole].tools}
              /\ UpTo(job[sole].tools, job[sole].next - 1)
        /\ ~InFacades(sole) => \A tools \in server : UpTo(tools, Len(tools))

\* What is written elsewhere leaves them there.
LEMMA UpToStays ==
    ASSUME NEW id, NEW record, register_graph(id, record), \A t : id # FacadeId(t),
           NEW tools, NEW k, UpTo(tools, k)
    PROVE  UpTo(tools, k)'
<1> SUFFICES ASSUME NEW t \in 1 .. k
             PROVE  Stored(FacadeId(t))' /\ IsFacadeOf(graphs'[FacadeId(t)], tools, t)
  BY DEF UpTo
<1>1. FacadeId(t) \in DOMAIN graphs /\ IsFacadeOf(graphs[FacadeId(t)], tools, t)
  BY DEF UpTo, Stored
<1>2. FacadeId(t) # id
  OBVIOUS
<1>3. FacadeId(t) \in DOMAIN graphs' /\ graphs'[FacadeId(t)] = graphs[FacadeId(t)]
  BY <1>1, <1>2, Upserted
<1> QED BY <1>1, <1>3 DEF Stored

\* The next facade joins them; one with the same id gives way to it.
LEMMA UpToGrows ==
    ASSUME NEW id, NEW record, register_graph(id, record), NEW tools, NEW k \in Nat \ {0},
           id = FacadeId(k), IsFacadeOf(record, tools, k), UpTo(tools, k - 1)
    PROVE  UpTo(tools, k)'
<1> SUFFICES ASSUME NEW t \in 1 .. k
             PROVE  Stored(FacadeId(t))' /\ IsFacadeOf(graphs'[FacadeId(t)], tools, t)
  BY DEF UpTo
<1>1. CASE FacadeId(t) = id
  <2>1. Slug[t] = Slug[k]
    BY <1>1 DEF FacadeId
  <2>2. FacadeId(t) \in DOMAIN graphs' /\ graphs'[FacadeId(t)] = record
    BY <1>1, Upserted
  <2> QED BY <2>1, <2>2 DEF IsFacadeOf, Stored
<1>2. CASE FacadeId(t) # id
  <2>1. t \in 1 .. (k - 1)
    BY <1>2
  <2>2. FacadeId(t) \in DOMAIN graphs /\ IsFacadeOf(graphs[FacadeId(t)], tools, t)
    BY <2>1 DEF UpTo, Stored
  <2>3. FacadeId(t) \in DOMAIN graphs' /\ graphs'[FacadeId(t)] = graphs[FacadeId(t)]
    BY <1>2, <2>2, Upserted
  <2> QED BY <2>2, <2>3 DEF Stored
<1> QED BY <1>1, <1>2

LEMMA NewFacadeFits ==
    ASSUME NEW p \in Procs, NEW t \in DOMAIN job[p].tools
    PROVE  IsFacadeOf(Facade(p, t), job[p].tools, t)
BY DEF IsFacadeOf, Facade, Record, seed_role

\* Who is undisturbed changes with an add and by a disturbance only.
LEMMA SoleSteps ==
    ASSUME NEW p \in Procs, Step(p)
    PROVE  sole' = "none" \/ AddRow(p) \/ sole' = sole
BY DEF Step, McpAdd, GraphImport, GraphifyCmd, Resolve, Report, Command, SeedLook, SeedWrite,
       AddFacade, Register, GetGraph, RecordRun, CountRun, MirrorFrame, Fail, ghosts

LEMMA WholeAfterRow ==
    ASSUME Typed, NEW p \in Procs, AddRow(p), sole' # "none"
    PROVE  WholeInv'
<1>1. sole' = p /\ HasFacades(p) /\ \A q \in Procs : InFacades(q) => q = p
  BY DEF AddRow
<1>2. server' = {job[p].tools} /\ pc[p] = "add" /\ pc'[p] = "facades" /\ job' = job
  BY <1>1 DEF AddRow, At, Goto, Typed
<1>3. \A q \in Procs \ {p} : pc'[q] = pc[q]
  BY OthersStay DEF Step
<1>4. job[p].next = 1
  BY <1>2 DEF Typed, JobFits
<1>5. UpTo(job[p].tools, job[p].next - 1)'
  BY <1>2, <1>4 DEF UpTo
<1> QED BY <1>1, <1>2, <1>3, <1>5 DEF WholeInv, InFacades

LEMMA WholeAfterFacade ==
    ASSUME Typed, WholeInv, NEW p \in Procs, AddFacade(p), sole # "none"
    PROVE  WholeInv'
<1>1. Step(p)
  BY DEF Step
<1>2. /\ InFacades(p) /\ sole = p /\ sole' = sole /\ server' = server
      /\ server = {job[p].tools} /\ \A q \in Procs \ {p} : ~InFacades(q)
  BY DEF AddFacade, WholeInv, ghosts
<1>3. PICK tools, k : tools = job[p].tools /\ k = job[p].next
  OBVIOUS
<1>4. AddJob(job[p]) /\ k \in Nat \ {0} /\ k <= Len(tools)
  BY <1>2, <1>3 DEF Typed, InFacades, JobFits, AddJob
<1>5. tools \in Seq(SUBSET {"read_only", "destructive"})
  BY <1>3, <1>4, RequestsAssumption DEF AddJob
<1>6. UpTo(tools, k)'
  <2>1. register_graph(FacadeId(k), Facade(p, k))
    BY <1>3 DEF AddFacade, WriteFacade
  <2>2. IsFacadeOf(Facade(p, k), tools, k)
    BY <1>3, <1>4, <1>5, NewFacadeFits
  <2>3. UpTo(tools, k - 1)
    BY <1>2, <1>3 DEF WholeInv
  <2> QED BY <1>4, <2>1, <2>2, <2>3, UpToGrows
<1>7. \A q \in Procs : InFacades(q)' => q = p
  BY <1>1, <1>2, OthersStay DEF InFacades
<1>8. CASE k = Len(tools)
  <2>1. ~InFacades(p)'
    BY <1>3, <1>8 DEF AddFacade, At, Goto, Typed, InFacades
  <2>2. \A ts \in server' : UpTo(ts, Len(ts))'
    BY <1>2, <1>3, <1>6, <1>8
  <2> QED BY <1>2, <1>7, <2>1, <2>2 DEF WholeInv
<1>9. CASE k # Len(tools)
  <2>1. job'[p].tools = tools /\ job'[p].next = k + 1
    BY <1>3, <1>9 DEF AddFacade, Typed, Adding
  <2>2. UpTo(job[p].tools, job[p].next - 1)'
    <3>1. job'[p].next - 1 = k
      BY <1>4, <2>1
    <3> QED BY <1>6, <2>1, <3>1
  <2>3. server' = {job'[p].tools} /\ InFacades(p)'
    BY <1>2, <1>3, <1>9, <2>1 DEF AddFacade, InFacades
  <2> QED BY <1>2, <1>7, <2>2, <2>3 DEF WholeInv
<1> QED BY <1>8, <1>9

\* A step that is neither part of an mcp add nor a disturbance of it.
LEMMA WholeStays ==
    ASSUME Typed, WholeInv, NEW p \in Procs, Step(p), ~AddRow(p), ~AddFacade(p),
           sole' = sole, sole # "none"
    PROVE  WholeInv'
<1>1. server' = server
  BY ServerStays
<1>2. /\ sole \in Procs
      /\ \A q \in Procs : InFacades(q) => q = sole
  BY DEF WholeInv
<1>3. ASSUME NEW q \in Procs, InFacades(q)' PROVE InFacades(q) /\ job'[q] = job[q]
  <2>1. CASE q = p
    <3>1. InFacades(p)
      BY <1>3, <2>1, IntoFacades DEF InFacades
    <3>2. Fail(p)
      BY <3>1 DEF Step, InFacades, McpAdd, GraphImport, GraphifyCmd, Resolve, Report, Command,
         SeedLook, SeedWrite, Register, GetGraph, RecordRun, CountRun, MirrorFrame, At
    <3>3. pc'[p] = "idle"
      BY <3>2 DEF Fail, At, Goto, Typed
    <3> QED BY <1>3, <2>1, <3>3 DEF InFacades
  <2>2. CASE q # p
    BY <1>3, <2>2, OthersStay DEF InFacades
  <2> QED BY <2>1, <2>2
<1>4. InFacades(sole) => InFacades(sole)'
  <2> SUFFICES ASSUME InFacades(sole) PROVE InFacades(sole)'
    OBVIOUS
  <2>1. CASE p = sole
    <3>1. Fail(p)
      BY <2>1 DEF Step, InFacades, McpAdd, GraphImport, GraphifyCmd, Resolve, Report, Command,
         SeedLook, SeedWrite, Register, GetGraph, RecordRun, CountRun, MirrorFrame, At
    <3>2. sole' = "none"
      BY <2>1, <3>1 DEF Fail
    <3> QED BY <3>2
  <2>2. CASE p # sole
    BY <1>2, <2>2, OthersStay DEF InFacades
  <2> QED BY <2>1, <2>2
<1>5. ASSUME NEW tools, NEW k, UpTo(tools, k) PROVE UpTo(tools, k)'
  <2>1. CASE graphs' = graphs
    BY <1>5, <2>1 DEF UpTo, Stored
  <2>2. CASE SeedWrite(p)
    <3>1. \A t : Builtin # FacadeId(t)
      BY FacadesAreElsewhere
    <3> QED BY <1>5, <2>2, <3>1, UpToStays DEF SeedWrite
  <2>3. CASE Register(p)
    <3>1. PICK id : id = job[p].id
      OBVIOUS
    <3>2. id[1] # "mcp"
      BY <2>3, <3>1 DEF Register
    <3>3. \A t : id # FacadeId(t)
      BY <3>2, FacadesAreElsewhere
    <3>4. PICK record : record = Record(job[p].source, job[p].shape, 0, {})
      OBVIOUS
    <3>5. register_graph(id, record)
      BY <2>3, <3>1, <3>4 DEF Register
    <3> QED BY <1>5, <3>3, <3>5, UpToStays
  <2> QED BY <2>1, <2>2, <2>3, GraphSteps
<1>6. CASE InFacades(sole)
  <2>1. PICK tools, k : tools = job[sole].tools /\ k = job[sole].next - 1
    OBVIOUS
  <2>2. UpTo(tools, k)'
    BY <1>5, <1>6, <2>1 DEF WholeInv
  <2>3. job'[sole] = job[sole] /\ InFacades(sole)'
    BY <1>2, <1>3, <1>4, <1>6
  <2>4. UpTo(job[sole].tools, job[sole].next - 1)'
    BY <2>1, <2>2, <2>3
  <2> QED BY <1>1, <1>2, <1>3, <1>6, <2>3, <2>4 DEF WholeInv
<1>7. CASE ~InFacades(sole)
  <2>1. ~InFacades(sole)'
    BY <1>2, <1>3, <1>7
  <2>2. \A tools \in server' : UpTo(tools, Len(tools))'
    BY <1>1, <1>5, <1>7 DEF WholeInv
  <2> QED BY <1>2, <1>3, <2>1, <2>2 DEF WholeInv
<1> QED BY <1>6, <1>7

\* A server's row holds the tools of a request.
RowIsAList == \A tools \in server : tools \in Seq(SUBSET {"read_only", "destructive"})

LEMMA NextRow == Typed /\ RowIsAList /\ [Next]_vars => RowIsAList'
<1> SUFFICES ASSUME Typed, RowIsAList, [Next]_vars PROVE RowIsAList'
  OBVIOUS
<1>1. ASSUME NEW p \in Procs, AddRow(p) PROVE RowIsAList'
  <2>1. AddJob(job[p])
    BY <1>1 DEF AddRow, At, Typed, JobFits
  <2> QED BY <1>1, <2>1, RequestsAssumption DEF AddRow, AddJob, RowIsAList
<1>2. CASE server' = server
  BY <1>2 DEF RowIsAList
<1> QED BY <1>1, <1>2, ServerStays DEF Next, vars, store

LEMMA NextWhole == Typed /\ WholeInv /\ [Next]_vars => WholeInv'
<1> SUFFICES ASSUME Typed, WholeInv, [Next]_vars PROVE WholeInv'
  OBVIOUS
<1>1. ASSUME NEW p \in Procs, Step(p) PROVE WholeInv'
  <2>1. CASE sole' = "none"
    BY <2>1 DEF WholeInv
  <2>2. CASE sole' # "none" /\ AddRow(p)
    BY <2>2, WholeAfterRow
  <2>3. CASE sole' # "none" /\ ~AddRow(p)
    BY <1>1, <2>3, SoleSteps, WholeAfterFacade, WholeStays
  <2> QED BY <2>1, <2>2, <2>3
<1>2. CASE UNCHANGED vars
  BY <1>2 DEF vars, store, ghosts, WholeInv, InFacades, UpTo, Stored
<1> QED BY <1>1, <1>2 DEF Next

\* An mcp add that nothing disturbed leaves a facade for every tool of the
\* row, gated when its tool declares itself destructive.
THEOREM AddIsWhole == Spec => []AddedServerIsWhole
<1>1. Init => WholeInv /\ RowIsAList
  BY DEF Init, WholeInv, RowIsAList
<1>2. WholeInv /\ RowIsAList => AddedServerIsWhole
  <2> SUFFICES ASSUME WholeInv, RowIsAList, sole # "none", ~InFacades(sole),
                      NEW tools \in server, NEW t \in DOMAIN tools
               PROVE  Stored(FacadeId(t)) /\ IsFacadeOf(graphs[FacadeId(t)], tools, t)
    BY DEF AddedServerIsWhole, IsFacadeOf
  <2>1. t \in 1 .. Len(tools)
    BY DEF RowIsAList
  <2> QED BY <2>1 DEF WholeInv, UpTo
<1> QED BY <1>1, <1>2, InitTyped, NextTyped, NextRow, NextWhole, PTL DEF Spec

\* A facade is of a server that is stored and, when nothing disturbed the add,
\* of its tools (mcp_add writes the row before the facades).
THEOREM FacadesAreOfTheirServer == Spec => []FacadesMatchTheirServer
<1> QED BY FacadesKeepTheirServer, AddIsWhole, PTL DEF FacadesMatchTheirServer

\* Counts and mirrored events are those of the indexed runs, whatever failed
\* and whoever indexed at the same time (record_run, mirror_journal).
THEOREM IndexIsFaithful == Spec => []IndexMatchesRuns
<1> QED BY CountIsExact, MirrorIsAPrefix, PTL DEF IndexMatchesRuns
=============================================================================
