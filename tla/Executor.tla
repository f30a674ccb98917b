------------------------------ MODULE Executor ------------------------------
(***************************************************************************)
(* EqlExecutor (executor.rs) with its vector index (vector.rs) beside the  *)
(* store: a session of RedbStore that also keeps an index of embeddings in *)
(* memory, loads it from "<path>.vectors" when it opens, and rewrites that *)
(* file when it is told to persist (EdisonDB::persist of sdk.rs; the REST  *)
(* delete and `edctl init` call it, `edctl shell` and every other handler  *)
(* never do).                                                              *)
(*                                                                         *)
(* The file of vectors has no lock and no transaction: save() truncates it *)
(* and writes a count and then the entries one by one.  A file that load() *)
(* refuses is taken for an empty index.  Two sessions that write at once   *)
(* leave bytes of both; what a load makes of them is left open.            *)
(*                                                                         *)
(* Embedding a text (Ollama, over HTTP) and the approximate search in the  *)
(* index (instant-distance) are external.  The vector of a payload is      *)
(* named by the payload.  A search only reads.                             *)
(*                                                                         *)
(* Callers pass text: Eql says what the methods of sdk.rs format and what  *)
(* parse() makes of it.                                                    *)
(***************************************************************************)
EXTENDS RedbStore, Eql

CONSTANTS
    VectorIds,    \* ids that callers pass to EMBED, of records or not
    Vectors,      \* vectors that callers pass to EMBED
    Arguments,    \* texts that callers pass to write() as payloads
    Garbled,      \* a file that two sessions wrote at once
    MaxVectorOps  \* bound: vectors inserted and saves of vectors asked for

VARIABLES
    vector_index,  \* EqlExecutor.vector_index, as the entries in their order
    vector_file,   \* the file of vectors, Absent when there is none
    stage,         \* where each session is with its vectors
    vector_ops,    \* how many vectors were inserted and saves asked for
    persisted,     \* history: what the file should hold
    latest,        \* history: what each session has loaded and inserted
    outdated,      \* history: the sessions whose index another save passed
    disturbed      \* history: an outdated session saved, or two at once

vectorVars == <<vector_index, vector_file, stage, vector_ops, persisted,
                latest, outdated, disturbed>>
executorVars == <<vars, vectorVars>>

Points == Vectors \cup Payloads
Entry == [id : VectorIds \cup {Absent}, point : Points \cup {Absent}]
VectorMap == [VectorIds -> Points \cup {Absent}]
NoVectors == [id \in VectorIds |-> Absent]

(* written counts what has reached the file: the count, then the entries.  *)
VectorFile == [image : Seq(Entry), written : Nat]

ASSUME ExecutorAssumption ==
    /\ Ids \subseteq VectorIds \cap IdWords
    /\ \A text \in Arguments :
          /\ text \in Seq(AllWords \cup Spaces)
          /\ Stripped(text) \in Payloads \/ ~OneLine(Stripped(text))
    /\ Vectors \cap Payloads = {}
    /\ Absent \notin VectorIds /\ Absent \notin Points
    /\ Absent # Garbled
    /\ Absent \notin VectorFile /\ Garbled \notin VectorFile
    /\ MaxVectorOps \in Nat

Opened == {"open", "due", "writing"}

ExecutorInit ==
    /\ Init
    /\ vector_index = [s \in Sessions |-> <<>>]
    /\ vector_file = Absent
    /\ stage = [s \in Sessions |-> "closed"]
    /\ vector_ops = 0
    /\ persisted = NoVectors
    /\ latest = [s \in Sessions |-> NoVectors]
    /\ outdated = {}
    /\ disturbed = FALSE

Move(s, from, to) == stage[s] = from /\ stage' = [stage EXCEPT ![s] = to]

Others(s, stages) == {u \in Sessions \ {s} : stage[u] \in stages}

-----------------------------------------------------------------------------
(* open_impl: the backend first, then the vectors.                         *)

IsFile(f) == f \notin {Absent, Garbled}
Complete(f) == f.written = Len(f.image) + 1

\* Mutant: a file that ends early yields the entries before its end.
LoadedPartly(f) ==
    IF f = Garbled THEN {<<>>}
    ELSE IF f = Absent THEN {<<>>}
    ELSE {SubSeq(f.image, 1, f.written - 1)}

(* An entry made of bytes of two sessions' entries.                        *)
Mixed == [id |-> Absent, point |-> Absent]

(* VectorIndex::load, and what open_impl makes of a refusal.               *)
Loaded(f) ==
    IF f = Garbled THEN {<<>>, <<Mixed, Mixed>>}
    ELSE IF IsFile(f) /\ Complete(f) THEN {f.image}
    ELSE {<<>>}

OpenStore(s) ==
    /\ Load(s) \/ Create(s)
    /\ Move(s, "closed", "opening")
    /\ UNCHANGED <<vector_index, vector_file, vector_ops, persisted, latest,
                   outdated, disturbed>>

LoadVectors(s) ==
    LET refused == IsFile(vector_file) /\ ~Complete(vector_file)
        writing == Others(s, {"writing"})
        what == IF refused THEN NoVectors ELSE persisted
    IN  /\ Move(s, "opening", "open")
        /\ \E index \in Loaded(vector_file) :
               vector_index' = [vector_index EXCEPT ![s] = index]
        /\ latest' = [latest EXCEPT ![s] = what]
        /\ persisted' = IF writing = {} THEN what ELSE persisted
        /\ outdated' = CASE writing # {} -> outdated \cup {s}
                         [] writing = {} /\ refused ->
                                outdated \cup Others(s, Opened)
                         [] OTHER -> outdated
        /\ UNCHANGED <<vars, vector_file, vector_ops, disturbed>>

-----------------------------------------------------------------------------
(* Statements.                                                             *)

Ready(s) == stage[s] = "open"

\* Mutant: insert never looks for the id.
AppendOnly(index, id, point) == Append(index, [id |-> id, point |-> point])

(* VectorIndex::insert *)
Inserted(index, id, point) ==
    IF \E i \in 1..Len(index) : index[i].id = id
    THEN [i \in 1..Len(index) |-> IF index[i].id = id
                                  THEN [index[i] EXCEPT !.point = point]
                                  ELSE index[i]]
    ELSE Append(index, [id |-> id, point |-> point])

Count == vector_ops < MaxVectorOps /\ vector_ops' = vector_ops + 1

Insert(s, id, point) ==
    /\ Count
    /\ vector_index' =
           [vector_index EXCEPT ![s] = Inserted(@, id, point)]
    /\ latest' = [latest EXCEPT ![s][id] = point]
    /\ UNCHANGED <<vector_file, stage, persisted, outdated, disturbed>>

(* exec_embed: whatever the id names.                                      *)
Embed(s, id, point) ==
    /\ Ready(s) /\ pc[s] = "ready"
    /\ Insert(s, id, point)
    /\ UNCHANGED vars

(* exec_auto_embed: a granted read gives the text, embedding it may fail.  *)
AutoEmbed(s, id, t) ==
    /\ Ready(s)
    /\ ExecAutoEmbed(s, id, t)
    /\ \/ /\ ReadResult(s, id) # Absent
          /\ Insert(s, id, records[s][id].payload)
       \/ UNCHANGED vectorVars

to_data_tier ==
    [CRITICAL |-> "Critical", PERSONAL |-> "Personal", NOISE |-> "Noise"]

SdkTexts ==
    {sdk_write(<<id>>, tier, payload) :
        id \in Ids, payload \in Arguments,
        tier \in {word \in TierWords : to_data_tier[word] \in Tiers}}
    \cup {sdk_read(<<id>>) : id \in Ids} \cup {sdk_delete(<<id>>) : id \in Ids}

(* What write(), read() and delete() execute; a text that parse() refuses  *)
(* returns an error before the session is touched.                         *)
Statements == {parse(text) : text \in SdkTexts} \ {Refused}

Execute(s, st, created_at, t) ==
    \/ /\ st.stmt = "Write"
       /\ ExecWrite(s, st.id, to_data_tier[st.tier], st.payload, created_at, t)
    \/ /\ st.stmt = "Read"
       /\ \/ ExecRead(s, st.id, t)
          \/ records[s][st.id] = Absent /\ SaveOnly(s)
    \/ st.stmt = "Delete" /\ ExecDelete(s, st.id, t)

(* These leave the index alone, the vectors of deleted ids included.       *)
Statement(s) ==
    /\ Ready(s)
    /\ \E st \in Statements, created_at, t \in Times :
           Execute(s, st, created_at, t)
    /\ UNCHANGED vectorVars

Wrote(s) ==
    request[s].index # 0 /\ audit_log[s][request[s].index].action = "Write"

(* A write that asked for it embeds its payload after its save; that the   *)
(* embedding failed is not reported.                                       *)
Finish(s) ==
    /\ Ready(s)
    /\ SendReply(s)
    /\ \/ /\ Wrote(s)
          /\ Insert(s, audit_log[s][request[s].index].record_id,
                    request[s].record.payload)
       \/ UNCHANGED vectorVars

-----------------------------------------------------------------------------
(* EqlExecutor::save: the store, then the vectors.                         *)

Persist(s) ==
    /\ SaveOnly(s)
    /\ Move(s, "open", "due")
    /\ Count
    /\ UNCHANGED <<vector_index, vector_file, persisted, latest, outdated,
                   disturbed>>

SaveStore(s) == SaveCommit(s) /\ UNCHANGED vectorVars

(* self.router.save()?: the error, that of a commit that may have been     *)
(* done included, returns before the vectors.                              *)
SaveStoreFails(s) ==
    /\ SaveRejected(s) \/ SaveFails(s) \/ SaveInDoubt(s)
    /\ stage' = [stage EXCEPT ![s] = "open"]
    /\ UNCHANGED <<vector_index, vector_file, vector_ops, persisted, latest,
                   outdated, disturbed>>

\* Mutant: the vectors are saved whether or not the store is.
StoreUnsaved(s) == pc[s] \in {"saving", "replying"}

StoreSaved(s) == pc[s] = "replying"

(* File::create truncates.                                                 *)
CreateVectors(s) ==
    LET alone == Others(s, {"writing"}) = {} IN
    /\ StoreSaved(s)
    /\ Move(s, "due", "writing")
    /\ vector_file' = IF alone
                      THEN [image |-> vector_index[s], written |-> 0]
                      ELSE Garbled
    /\ persisted' = latest[s]
    /\ outdated' = (outdated \ {s}) \cup Others(s, Opened)
    /\ disturbed' = (disturbed \/ ~alone \/ s \in outdated)
    /\ UNCHANGED <<vars, vector_index, vector_ops, latest>>

WriteVectors(s) ==
    /\ stage[s] = "writing"
    /\ IF vector_file = Garbled
       THEN vector_file' = Garbled /\ Move(s, "writing", "open")
       ELSE /\ vector_file' = [vector_file EXCEPT !.written = @ + 1]
            /\ IF Complete(vector_file') THEN Move(s, "writing", "open")
                                         ELSE UNCHANGED stage
    /\ UNCHANGED <<vars, vector_index, vector_ops, persisted, latest, outdated,
                   disturbed>>

(* The file cannot be created or written: persist returns the error.       *)
VectorsFail(s) ==
    /\ StoreSaved(s)
    /\ stage[s] \in {"due", "writing"}
    /\ stage' = [stage EXCEPT ![s] = "open"]
    /\ pc' = [pc EXCEPT ![s] = "ready"]
    /\ request' = [request EXCEPT ![s] = Absent]
    /\ UNCHANGED <<disk, memory, replies, vector_index, vector_file,
                   vector_ops, persisted, latest, outdated, disturbed>>

Close(s) ==
    /\ CloseOrCrash(s)
    /\ stage' = [stage EXCEPT ![s] = "closed"]
    /\ vector_index' = [vector_index EXCEPT ![s] = <<>>]
    /\ latest' = [latest EXCEPT ![s] = NoVectors]
    /\ outdated' = outdated \ {s}
    /\ UNCHANGED <<vector_file, vector_ops, persisted, disturbed>>

ExecutorNext ==
    \E s \in Sessions :
        \/ /\ \/ \E o \in Owners, mode \in Modes : Open(s, o, mode)
              \/ LoadRejected(s) \/ CreateRejected(s)
           /\ UNCHANGED vectorVars
        \/ OpenStore(s) \/ LoadVectors(s)
        \/ \E id \in VectorIds, point \in Vectors : Embed(s, id, point)
        \/ \E id \in Ids, t \in Times : AutoEmbed(s, id, t)
        \/ Statement(s) \/ Finish(s)
        \/ Persist(s) \/ SaveStore(s) \/ SaveStoreFails(s)
        \/ CreateVectors(s) \/ WriteVectors(s) \/ VectorsFail(s)
        \/ Close(s)

ExecutorSpec == ExecutorInit /\ [][ExecutorNext]_executorVars

-----------------------------------------------------------------------------
MapOf(index) ==
    [id \in VectorIds |->
        IF \E i \in 1..Len(index) : index[i].id = id
        THEN index[CHOOSE i \in 1..Len(index) : index[i].id = id].point
        ELSE Absent]

OneEntryPerId(index) ==
    \A i, j \in 1..Len(index) : i # j => index[i].id # index[j].id

(* Types; a session writes its vectors only between the commit of its      *)
(* store and its answer.                                                   *)
ExecutorOK ==
    /\ TypeOK
    /\ vector_index \in [Sessions -> Seq(Entry)]
    /\ vector_file \in VectorFile \cup {Absent, Garbled}
    /\ stage \in [Sessions -> {"closed", "opening"} \cup Opened]
    /\ vector_ops \in 0..MaxVectorOps
    /\ persisted \in VectorMap
    /\ latest \in [Sessions -> VectorMap]
    /\ outdated \subseteq Sessions
    /\ disturbed \in BOOLEAN
    /\ \A s \in Sessions :
          /\ stage[s] = "due" => pc[s] \in {"saving", "replying"}
          /\ stage[s] = "writing" => pc[s] = "replying"

(* As long as no session saved an index that another save had passed, a    *)
(* file that opens holds exactly the vectors that were persisted since it  *)
(* was last lost: a save that a crash or an I/O error interrupts leaves a  *)
(* file that is refused as a whole, never one that opens with some of its  *)
(* vectors or with older ones.  No index has two entries of one id.        *)
PersistedVectorsReturn ==
    ~disturbed =>
        /\ IsFile(vector_file) => OneEntryPerId(vector_file.image)
        /\ \A s \in Sessions : OneEntryPerId(vector_index[s])
        /\ (IsFile(vector_file) /\ Complete(vector_file)) =>
               MapOf(vector_file.image) = persisted
        /\ \A s \in Sessions : s \notin outdated =>
               MapOf(vector_index[s]) = latest[s]

(* log has a read or a write that the vector of a payload may come from.   *)
Accounted(entry, log) ==
    entry.point \in Payloads =>
        \E n \in 1..Len(log) :
            /\ log[n].record_id = entry.id
            /\ log[n].action \in {"ReadGranted", "Write"}

(* The vector of a payload tells of the payload.  It reaches the file only *)
(* after the read or the write it comes from is in the durable audit log,  *)
(* whichever sessions embed, save, fail or die.                            *)
VectorsAreAccountedFor ==
    IsFile(vector_file) =>
        \A i \in 1..Len(vector_file.image) :
            Accounted(vector_file.image[i], disk_audit)

(* SDK calls mean what their arguments say: StatementsKeepText of Eql, for *)
(* the calls an open session takes.                                        *)
CallsMeanWhatTheySay ==
    \A s \in Sessions : Ready(s) => StatementsKeepText

-----------------------------------------------------------------------------
(* The inductive invariant behind the properties above.                    *)

(* A session that has not loaded its vectors has none; the others are      *)
(* accounted for in its own log, or in the durable one they were loaded    *)
(* beside.  The reply to a write carries the record that was written.      *)
SessionVectors(s) ==
    /\ stage[s] # "closed" => pc[s] \in {"ready", "saving", "replying"}
    /\ stage[s] = "opening" => pc[s] = "ready"
    /\ stage[s] = "writing" => vector_file # Absent
    /\ stage[s] \in {"closed", "opening"} => vector_index[s] = <<>>
    /\ \A i \in 1..Len(vector_index[s]) :
          \/ Accounted(vector_index[s][i], audit_log[s])
          \/ Accounted(vector_index[s][i], disk_audit)
    /\ (pc[s] \in {"saving", "replying"} /\ Wrote(s)) =>
           request[s].record \in Record

(* The file holds what was persisted while it is being written, too.       *)
FileIsPersisted ==
    ~disturbed =>
        /\ vector_file # Garbled
        /\ vector_file = Absent => persisted = NoVectors
        /\ (IsFile(vector_file) /\ \E s \in Sessions : stage[s] = "writing") =>
               MapOf(vector_file.image) = persisted

ExecutorIInv ==
    /\ IInv
    /\ ExecutorOK
    /\ \A s \in Sessions : SessionVectors(s)
    /\ VectorsAreAccountedFor
    /\ PersistedVectorsReturn
    /\ FileIsPersisted
=============================================================================
