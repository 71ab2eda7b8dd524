------------------------------ MODULE Registry ------------------------------
(***************************************************************************)
(* The store (graffy-memory) and the commands that change it: registering  *)
(* an MCP server with the facades of its tools, importing and graphifying  *)
(* graphs, seeding the graphs a binary ships, resolving a graph to run it, *)
(* and indexing a finished run.  Several processes, perhaps of different   *)
(* versions, work on one store.  Each SQL statement is atomic, a command   *)
(* is several statements, and it may fail or be killed before any of them. *)
(*                                                                         *)
(* A graph is a name in Shape, which gives its structure.                  *)
(***************************************************************************)
EXTENDS Interview, GraphLaw, ShippedGraphs

CONSTANTS
    Procs,
    Version,        \* per process, which version of the built-in it ships
    Slug,           \* per tool of the server, what sanitize leaves of its name
    Requests,       \* the requests to add the server
    ImportIds,      \* the ids imported graphs can carry
    Frames,         \* how many frames the journal of a run has
    MaxCommands     \* bound on the commands given

ASSUME FramesAssumption == Frames \in Nat
ASSUME ProcsAssumption == IsFiniteSet(Procs) /\ "none" \notin Procs
ASSUME VersionAssumption == \A p \in Procs : Version[p] \in {"conversation", "old_conversation"}
ASSUME RequestsAssumption ==
    \A r \in Requests :
        /\ r.tools \in Seq(SUBSET {"read_only", "destructive"}) /\ Len(r.tools) <= Len(Slug)
        /\ {r.knowledge, r.interactive, r.override} \subseteq BOOLEAN
        /\ r.q2 \in Answers /\ r.followUp \in Answers

VARIABLES
    pc, job,        \* per process, the command it is in
    graphs,         \* the graphs table: a function on the ids in it
    server,         \* the MCP server's row: the set of its list of tools, or {}
    runs,           \* the runs table: pairs of a session's run and its number
    counted,        \* the session's run_count
    mirrored,       \* the run_events table: pairs of a run and a sequence number
    commands,       \* how many commands were given
    shipped,        \* per process: it saw to the built-in, and nobody else
                    \* wrote it since
    lost,           \* how many runs lost their session's count to a failure
    sole            \* the process whose add nothing disturbed, or "none"

store == <<graphs, server, runs, counted, mirrored>>
ghosts == <<shipped, lost, sole>>
vars == <<pc, job, store, commands, ghosts>>

-----------------------------------------------------------------------------
(* Shapes, and which of them compile.                                      *)

Unlawful == [Conversation EXCEPT !.succ[4] = Then(5) \o Then(3)]

Shape ==
    [conversation |-> Conversation, old_conversation |-> Conversation,
     floor |-> Conversation, imported |-> GatedConversation, unlawful |-> Unlawful,
     gated |-> EffectorFacade(1), open |-> ReaderFacade(1)]

Lawful == [s \in DOMAIN Shape |-> Compiles(Shape[s])]

Builtin == <<"builtin", "conversation">>
FacadeId(t) == <<"mcp", Slug[t]>>

Stored(id) == id \in DOMAIN graphs
\* why: what a facade's tool declares, and whether its server was trusted.
Record(source, shape, tool, why) ==
    [source |-> source, shape |-> shape, tool |-> tool, why |-> why]

register_graph(id, record) ==
    /\ Lawful[record.shape]
    /\ graphs' = [i \in DOMAIN graphs \cup {id} |-> IF i = id THEN record ELSE graphs[i]]

\* Whoever writes the built-in takes it from those who saw to theirs.
Writes(id, seeder) ==
    shipped' = IF id = Builtin THEN [q \in Procs |-> q \in seeder] ELSE shipped

-----------------------------------------------------------------------------
NoJob == [cmd |-> "none"]

Init ==
    /\ pc = [p \in Procs |-> "idle"] /\ job = [p \in Procs |-> NoJob]
    /\ graphs = [id \in {} |-> NoJob] /\ server = {}
    /\ runs = {} /\ counted = 0 /\ mirrored = {}
    /\ commands = 0
    /\ shipped = [p \in Procs |-> FALSE] /\ lost = 0 /\ sole = "none"

Goto(p, to) == pc' = [pc EXCEPT ![p] = to]
\* A command that has ended is forgotten.
At(p, from, to) ==
    /\ pc[p] = from /\ Goto(p, to)
    /\ job' = IF to = "idle" THEN [job EXCEPT ![p] = NoJob] ELSE job

Command(p, j) ==
    /\ commands < MaxCommands /\ commands' = commands + 1
    /\ pc[p] = "idle" /\ Goto(p, "open")
    /\ job' = [job EXCEPT ![p] = j]
    /\ UNCHANGED <<store, ghosts>>

\* next: the tool whose facade comes next.
Adding(tools, default, facades, trusted, next) ==
    [cmd |-> "add", tools |-> tools, default |-> default, facades |-> facades,
     trusted |-> trusted, next |-> next]

Discovered ==
    {Adding(req.tools, ServerDefault(req), req.facades, Trusted(req), 1) : req \in Requests}

McpAdd(p) == \E j \in Discovered : Command(p, j)

GraphImport(p) ==
    \E id \in ImportIds, shape \in {"imported", "unlawful"} :
        Command(p, [cmd |-> "register", id |-> id, source |-> "imported", shape |-> shape])

\* review_loop: the first key only closes the help, keys typed into an edit
\* decide nothing, and accepting compiles the graph first.
Read(state, key) ==
    IF state.decision # "open" THEN state
    ELSE IF state.help THEN [state EXCEPT !.help = FALSE]
    ELSE IF state.editing THEN [state EXCEPT !.editing = key \notin {"enter", "esc"}]
    ELSE CASE key \in {"a", "enter"} ->
            [state EXCEPT !.decision = IF Lawful["floor"] THEN "accept" ELSE "open"]
      [] key \in {"r", "q", "esc"} -> [state EXCEPT !.decision = "reject"]
      [] key = "n" -> [state EXCEPT !.editing = TRUE]
      [] key = "?" -> [state EXCEPT !.help = TRUE]
      [] OTHER -> state

ReviewSpec(keys) ==
    LET f[i \in 0 .. Len(keys)] ==
            IF i = 0 THEN [help |-> TRUE, editing |-> FALSE, decision |-> "open"]
            ELSE Read(f[i - 1], keys[i])
    IN  f[Len(keys)].decision

Reviews == [1 .. 3 -> {"a", "r", "n", "esc"}]

Accepted(mode, interactive, keys, yes) ==
    \/ mode = "auto"
    \/ interactive /\ ReviewSpec(keys) = "accept"
    \/ ~interactive /\ mode = "guided" /\ yes

\* A review that is refused, or cannot be held, leaves no trace.
CanBeAccepted ==
    \E mode \in {"auto", "guided", "collaborative"}, interactive, yes \in BOOLEAN,
       keys \in Reviews : Accepted(mode, interactive, keys, yes)

GraphifyCmd(p) ==
    /\ CanBeAccepted
    /\ Command(p, [cmd |-> "register", id |-> <<"skill", "own">>,
                   source |-> "graphified", shape |-> "floor"])

Resolve(p) == Command(p, [cmd |-> "resolve"])

\* A run of the shared session ended; its journal is there.
Report(p) == Command(p, [cmd |-> "index", run |-> commands + 1])

(***************************************************************************)
(* open_store: look at the sha of the built-in, register it when it        *)
(* differs from what this binary ships, and go on with the command.        *)
(***************************************************************************)
BuiltinRecord(p) == Record("builtin", Version[p], 0, {})

\* Mutant: a built-in is seeded once and never upgraded.
UpToDateIfThere(p) == Stored(Builtin)

UpToDate(p) == Stored(Builtin) /\ graphs[Builtin].shape = Version[p]

SeedLook(p) ==
    /\ At(p, "open", IF UpToDate(p) THEN job[p].cmd ELSE "seed")
    /\ shipped' = [shipped EXCEPT ![p] = TRUE]
    /\ UNCHANGED <<store, commands, lost, sole>>

SeedWrite(p) ==
    /\ At(p, "seed", job[p].cmd)
    /\ register_graph(Builtin, BuiltinRecord(p))
    /\ Writes(Builtin, {p})
    /\ UNCHANGED <<server, runs, counted, mirrored, commands, lost, sole>>

(***************************************************************************)
(* mcp_add: the server's row, then the facades one by one.                 *)
(***************************************************************************)
InFacades(p) == pc[p] = "facades"
HasFacades(p) == job[p].facades /\ job[p].tools # <<>>

AddRow(p) ==
    /\ At(p, "add", IF HasFacades(p) THEN "facades" ELSE "idle")
    /\ server' = {job[p].tools}
    /\ sole' = IF HasFacades(p) /\ ~\E q \in Procs \ {p} : InFacades(q) THEN p ELSE "none"
    /\ UNCHANGED <<graphs, runs, counted, mirrored, commands, shipped, lost>>

Facade(p, t) ==
    LET role == seed_role(job[p].tools[t], job[p].default)
    IN  Record("mcp-facade", IF role = "effector" THEN "gated" ELSE "open", t,
               job[p].tools[t] \cup (IF job[p].trusted THEN {"trusted"} ELSE {}))

\* Mutant: a facade that is there already is left as it is.
FacadeOnce(p, t) ==
    IF Stored(FacadeId(t)) THEN UNCHANGED graphs
    ELSE register_graph(FacadeId(t), Facade(p, t))

WriteFacade(p, t) == register_graph(FacadeId(t), Facade(p, t))

AddFacade(p) ==
    LET j == job[p] IN
    /\ InFacades(p)
    /\ WriteFacade(p, j.next)
    /\ IF j.next = Len(j.tools) THEN At(p, "facades", "idle")
       ELSE /\ job' = [job EXCEPT ![p] =
                         Adding(j.tools, j.default, j.facades, j.trusted, j.next + 1)]
            /\ UNCHANGED pc
    /\ UNCHANGED <<server, runs, counted, mirrored, commands, ghosts>>

\* graph_import, graphify_cmd: one validated upsert; an import can carry the
\* id of a facade.
Register(p) ==
    /\ At(p, "register", "idle")
    /\ register_graph(job[p].id, Record(job[p].source, job[p].shape, 0, {}))
    /\ Writes(job[p].id, {})
    /\ sole' = IF job[p].id[1] = "mcp" THEN "none" ELSE sole
    /\ UNCHANGED <<server, runs, counted, mirrored, commands, lost>>

\* resolve_spec on a built-in's id.
GetGraph(p) ==
    /\ Stored(Builtin)
    /\ At(p, "resolve", "idle")
    /\ UNCHANGED <<store, commands, ghosts>>

(***************************************************************************)
(* index_run: the run's row, its session's count, its events one by one.   *)
(***************************************************************************)
RecordRun(p) ==
    /\ At(p, "index", "count")
    /\ runs' = runs \cup {job[p].run}
    /\ UNCHANGED <<graphs, server, counted, mirrored, commands, ghosts>>

\* Mutant: the count is read in one statement and written back in another.
Bump(p) == counted' = Cardinality(runs)

Upsert(p) == counted' = counted + 1

CountRun(p) ==
    /\ At(p, "count", "mirror")
    /\ Upsert(p)
    /\ UNCHANGED <<graphs, server, runs, mirrored, commands, ghosts>>

EventsOf(run) == {e \in mirrored : e[1] = run}

NextFrame(run) == Cardinality(EventsOf(run)) + 1

MirrorFrame(p) ==
    LET run == job[p].run
        seq == NextFrame(run)
    IN  /\ At(p, "mirror", IF seq >= Frames THEN "idle" ELSE "mirror")
        /\ mirrored' = mirrored \cup {<<run, seq>>}
        /\ UNCHANGED <<graphs, server, runs, counted, commands, ghosts>>

\* The process is killed, the store is busy or the disk is full, or a graph
\* does not compile: the command ends where it stands.
Fail(p) ==
    /\ pc[p] # "idle" /\ At(p, pc[p], "idle")
    /\ lost' = lost + (IF pc[p] = "count" THEN 1 ELSE 0)
    /\ sole' = IF InFacades(p) /\ sole = p THEN "none" ELSE sole
    /\ UNCHANGED <<store, commands, shipped>>

Step(p) ==
    \/ McpAdd(p) \/ GraphImport(p) \/ GraphifyCmd(p) \/ Resolve(p) \/ Report(p)
    \/ SeedLook(p) \/ SeedWrite(p)
    \/ AddRow(p) \/ AddFacade(p) \/ Register(p) \/ GetGraph(p)
    \/ RecordRun(p) \/ CountRun(p) \/ MirrorFrame(p)
    \/ Fail(p)

Next == \E p \in Procs : Step(p)

Spec == Init /\ [][Next]_vars

-----------------------------------------------------------------------------
\* Every graph in the store compiles, whichever command put it there, those
\* that mcp add and graphify generate included (register_graph).
GraphsCompile == \A id \in DOMAIN graphs : Lawful[graphs[id].shape]

FacadeIds == {id \in DOMAIN graphs : graphs[id].source = "mcp-facade"}

\* A generated facade never points at a server the store does not know,
\* wherever mcp add was interrupted (build_tool_plane bails on such a graph).
FacadesHaveTheirServer == FacadeIds # {} => server # {}

\* A tool runs without a human only when it declares itself read-only and not
\* destructive, or when somebody trusted the server with it; a tool that
\* declares itself destructive never does (seed_role, interview.rs).
UngatedToolsWereTrusted ==
    \A id \in FacadeIds :
        graphs[id].shape = "open" =>
            /\ "destructive" \notin graphs[id].why
            /\ graphs[id].why \cap {"read_only", "trusted"} # {}

\* After an mcp add that nothing disturbed the facades are those of the row:
\* each tool's id holds a facade of this add, gated as its tool declares.
AddedServerIsWhole ==
    sole # "none" /\ ~InFacades(sole) =>
        \A tools \in server : \A t \in DOMAIN tools :
            /\ Stored(FacadeId(t))
            /\ LET g == graphs[FacadeId(t)] IN
               /\ g.source = "mcp-facade" /\ g.tool \in DOMAIN tools
               /\ Slug[g.tool] = Slug[t]
               /\ Destructive(tools[g.tool]) => g.shape = "gated"

\* Facades are of a server the store knows and, undisturbed, of its tools.
FacadesMatchTheirServer == FacadesHaveTheirServer /\ AddedServerIsWhole

\* Resolving a built-in gives the graph this binary ships, whatever an import
\* or another version left under its id, unless somebody writes it meanwhile
\* (open_store).
ResolvedBuiltinIsShipped ==
    \A p \in Procs :
        pc[p] = "resolve" /\ shipped[p] => graphs[Builtin] = BuiltinRecord(p)

Counting == {p \in Procs : pc[p] = "count"}

\* The session's count is the number of its runs, less those on their way
\* and those a failure cut short (record_run is two statements).
CountMatchesRuns == counted + Cardinality(Counting) + lost = Cardinality(runs)

\* Events are mirrored only of runs that have a row, from the first frame
\* without a gap (index_run: record_run before mirror_journal).
MirrorFollowsRuns ==
    \A e \in mirrored : e[1] \in runs /\ \A s \in 1 .. e[2] : <<e[1], s>> \in mirrored

\* However many processes index at once and wherever one of them dies, the
\* store says of runs what their journals and sessions say.
IndexMatchesRuns == CountMatchesRuns /\ MirrorFollowsRuns
=============================================================================
