---------------------------- MODULE ContentStore ----------------------------
(***************************************************************************)
(* A content store on disk, used by several actors at once through the     *)
(* store handler: a file for every content, named by its hash, and a file  *)
(* for every label that holds a hash.  Nothing locks the store; each call  *)
(* is a sequence of file operations with other calls in between.           *)
(*                                                                         *)
(* tokio runs a file operation on a thread of its own and lets it finish   *)
(* when the call that waits for it is dropped.  A write to an open         *)
(* tokio::fs::File is not waited for: write_all returns when the bytes are *)
(* handed over, they reach the file later, and an error is lost with the   *)
(* File.  A content is taken to fit in one such write (tokio cuts those    *)
(* over 2 MiB, and another storer may empty the file between two pieces).  *)
(*                                                                         *)
(* A content and its hash are one value (no collisions).  replace-content- *)
(* at-label does what store-at-label does, and replace-at-label what label *)
(* does; exists, the lists and the total size only look at the files.      *)
(***************************************************************************)
EXTENDS Naturals, FiniteSets

CONSTANTS
    Actors,     \* the actors that use the store
    Contents,   \* contents, and so their hashes
    Labels,     \* labels
    Nothing,    \* no value
    Ops,        \* Ops[a]: the host functions a uses
    MaxCalls,   \* calls of one actor
    MaxFaults   \* file operations that fail, calls dropped, crashes

Functions == {"store", "get", "label", "get-by-label", "remove-label", "store-at-label"}

ASSUME StoreAssumption ==
    /\ Contents \cap Labels = {} /\ Nothing \notin Contents \cup Labels
    /\ Contents \cap {"none", "part", "full", "err"} = {}
    /\ Ops \in [Actors -> SUBSET Functions]
    /\ MaxCalls \in Nat /\ MaxFaults \in Nat

VARIABLES
    data,      \* data[h]: the content's file: "none", "part" (a prefix of it) or "full"
    labels,    \* labels[l]: the label's file: "none", "part" (empty) or a hash
    writes,    \* writes[a]: contents handed over by a that have not reached their file
    unlinked,  \* the actors whose open label file has been removed
    alive,     \* the actors that run
    step,      \* step[a]: the next file operation of a's call
    call,      \* call[a]: the call, or the last one
    result,    \* result[a]: what it read
    damaged,   \* contents whose last write was lost
    torn,      \* labels whose last write was lost
    calls,     \* calls[a]: number of calls made
    faults     \* number of faults

files  == <<data, labels>>
ghosts == <<damaged, torn>>
bounds == <<calls, faults>>
storeVars == <<files, writes, unlinked, alive, step, call, result, ghosts, bounds>>

-----------------------------------------------------------------------------
Steps == {"idle", "stat", "create", "write", "trunc", "put", "read", "lstat", "lread", "rm"}

StoreCall == [op : Functions, content : Contents \cup {Nothing}, label : Labels \cup {Nothing}]

StoreTypeOK ==
    /\ data \in [Contents -> {"none", "part", "full"}]
    /\ labels \in [Labels -> {"none", "part"} \cup Contents]
    /\ writes \in [Actors -> SUBSET Contents]
    /\ unlinked \subseteq Actors /\ alive \subseteq Actors
    /\ step \in [Actors -> Steps]
    /\ call \in [Actors -> StoreCall \cup {Nothing}]
    /\ result \in [Actors -> {Nothing, "err", "none", "part", "full"} \cup Contents]
    /\ damaged \subseteq Contents /\ torn \subseteq Labels
    /\ calls \in [Actors -> 0..MaxCalls] /\ faults \in 0..MaxFaults

StoreInit ==
    /\ data = [h \in Contents |-> "none"]
    /\ labels = [l \in Labels |-> "none"]
    /\ writes = [a \in Actors |-> {}]
    /\ unlinked = {} /\ alive = Actors
    /\ step = [a \in Actors |-> "idle"]
    /\ call = [a \in Actors |-> Nothing]
    /\ result = [a \in Actors |-> Nothing]
    /\ damaged = {} /\ torn = {}
    /\ calls = [a \in Actors |-> 0] /\ faults = 0

-----------------------------------------------------------------------------
(* Calls.                                                                  *)

FirstStep(o) ==
    CASE o \in {"store", "store-at-label", "label"} -> "stat"
      [] o = "get" -> "read"
      [] o \in {"get-by-label", "remove-label"} -> "lstat"

CallHost(a, o, h, l) ==
    /\ a \in alive /\ step[a] = "idle" /\ calls[a] < MaxCalls
    /\ o \in Ops[a]
    /\ (h = Nothing) <=> (o \in {"get-by-label", "remove-label"})
    /\ (l = Nothing) <=> (o \in {"store", "get"})
    /\ calls' = [calls EXCEPT ![a] = @ + 1]
    /\ call' = [call EXCEPT ![a] = [op |-> o, content |-> h, label |-> l]]
    /\ result' = [result EXCEPT ![a] = Nothing]
    /\ step' = [step EXCEPT ![a] = FirstStep(o)]
    /\ UNCHANGED <<files, writes, unlinked, alive, ghosts, faults>>

Goes(a, s) == step' = [step EXCEPT ![a] = s] /\ UNCHANGED result

\* The call is over, with what it found or an error; store and store-at-label
\* return the reference.
Returns(a, r) ==
    /\ step' = [step EXCEPT ![a] = "idle"]
    /\ result' = [result EXCEPT ![a] = IF a \in alive THEN r ELSE @]

At(a, s) == step[a] = s
Fault == faults < MaxFaults /\ faults' = faults + 1

-----------------------------------------------------------------------------
(* The file of a content.                                                  *)

StatUnchecked(a) ==   \* Mutant of Stat: label does not look for the content
    LET h == call[a].content IN
    /\ At(a, "stat") /\ a \in alive
    /\ IF call[a].op = "label" THEN Goes(a, "trunc")
       ELSE IF data[h] = "none" THEN Goes(a, "create")
       ELSE IF call[a].op = "store" THEN Returns(a, Nothing) ELSE Goes(a, "trunc")
    /\ UNCHANGED <<files, writes, unlinked, alive, call, ghosts, bounds>>

\* Is it there?  A file that is being written counts.
Stat(a) ==
    LET h == call[a].content IN
    /\ At(a, "stat") /\ a \in alive
    /\ IF data[h] = "none"
       THEN IF call[a].op = "label" THEN Returns(a, "err") ELSE Goes(a, "create")
       ELSE IF call[a].op = "store" THEN Returns(a, Nothing) ELSE Goes(a, "trunc")
    /\ UNCHANGED <<files, writes, unlinked, alive, call, ghosts, bounds>>

\* If it cannot be told the answer is no.
StatFails(a) ==
    /\ At(a, "stat") /\ a \in alive /\ Fault
    /\ IF call[a].op = "label" THEN Returns(a, "err") ELSE Goes(a, "create")
    /\ UNCHANGED <<files, writes, unlinked, alive, call, ghosts, calls>>

\* File::create, which empties a file that has appeared since.
Create(a) ==
    LET h == call[a].content IN
    /\ At(a, "create")
    /\ data' = [data EXCEPT ![h] = "part"]
    /\ Goes(a, IF a \in alive THEN "write" ELSE "idle")
    /\ damaged' = IF a \in alive THEN damaged \ {h} ELSE damaged \cup {h}
    /\ UNCHANGED <<labels, writes, unlinked, alive, call, torn, bounds>>

\* store returns the reference all the same.
CreateFails(a) ==
    /\ At(a, "create") /\ a \in alive /\ Fault
    /\ Returns(a, IF call[a].op = "store" THEN Nothing ELSE "err")
    /\ UNCHANGED <<files, writes, unlinked, alive, call, ghosts, calls>>

WriteNot(a) ==   \* Mutant of Write: the new file is left as it is
    /\ At(a, "write") /\ a \in alive
    /\ writes' = writes
    /\ IF call[a].op = "store" THEN Returns(a, Nothing) ELSE Goes(a, "trunc")
    /\ UNCHANGED <<files, unlinked, alive, call, ghosts, bounds>>

\* write_all hands the content over.
Write(a) ==
    /\ At(a, "write") /\ a \in alive
    /\ writes' = [writes EXCEPT ![a] = @ \cup {call[a].content}]
    /\ IF call[a].op = "store" THEN Returns(a, Nothing) ELSE Goes(a, "trunc")
    /\ UNCHANGED <<files, unlinked, alive, call, ghosts, bounds>>

\* The bytes reach the file, whoever has emptied or written it since.
WriteLands(a, h) ==
    /\ h \in writes[a]
    /\ data' = [data EXCEPT ![h] = "full"]
    /\ writes' = [writes EXCEPT ![a] = @ \ {h}]
    /\ damaged' = damaged \ {h}
    /\ UNCHANGED <<labels, unlinked, alive, step, call, result, torn, bounds>>

\* Nobody is told.
WriteFails(a, h) ==
    /\ h \in writes[a] /\ Fault
    /\ writes' = [writes EXCEPT ![a] = @ \ {h}]
    /\ damaged' = IF data[h] = "part" THEN damaged \cup {h} ELSE damaged
    /\ UNCHANGED <<files, unlinked, alive, step, call, result, torn, calls>>

Read(a) ==
    LET h == call[a].content IN
    /\ At(a, "read") /\ a \in alive
    /\ Returns(a, IF data[h] = "none" THEN "err" ELSE data[h])
    /\ UNCHANGED <<files, writes, unlinked, alive, call, ghosts, bounds>>

-----------------------------------------------------------------------------
(* The file of a label.                                                    *)

\* fs::write: the file is opened and emptied, then written.
Truncate(a) ==
    LET l == call[a].label IN
    /\ At(a, "trunc")
    /\ labels' = [labels EXCEPT ![l] = "part"]
    /\ torn' = torn \ {l}
    /\ unlinked' = unlinked \ {a}
    /\ Goes(a, "put")
    /\ UNCHANGED <<data, writes, alive, call, damaged, bounds>>

TruncateFails(a) ==
    /\ At(a, "trunc") /\ a \in alive /\ Fault
    /\ Returns(a, "err")
    /\ UNCHANGED <<files, writes, unlinked, alive, call, ghosts, calls>>

\* A file that has been removed in between takes the hash with it.
Put(a) ==
    LET l == call[a].label IN
    /\ At(a, "put")
    /\ labels' = IF a \in unlinked THEN labels ELSE [labels EXCEPT ![l] = call[a].content]
    /\ Returns(a, Nothing)
    /\ UNCHANGED <<data, writes, unlinked, alive, call, ghosts, bounds>>

\* The file stays empty.
PutFails(a) ==
    LET l == call[a].label IN
    /\ At(a, "put") /\ Fault
    /\ torn' = IF a \notin unlinked /\ labels[l] = "part" THEN torn \cup {l} ELSE torn
    /\ Returns(a, "err")
    /\ UNCHANGED <<files, writes, unlinked, alive, call, damaged, calls>>

\* get_content_ref and remove look for the file first.
LabelStat(a) ==
    /\ At(a, "lstat") /\ a \in alive
    /\ IF labels[call[a].label] = "none" THEN Returns(a, "none")
       ELSE Goes(a, IF call[a].op = "remove-label" THEN "rm" ELSE "lread")
    /\ UNCHANGED <<files, writes, unlinked, alive, call, ghosts, bounds>>

\* An empty label is no label.
LabelRead(a) ==
    LET x == labels[call[a].label] IN
    /\ At(a, "lread") /\ a \in alive
    /\ Returns(a, IF x = "none" THEN "err" ELSE IF x = "part" THEN "none" ELSE x)
    /\ UNCHANGED <<files, writes, unlinked, alive, call, ghosts, bounds>>

Remove(a) ==
    LET l == call[a].label IN
    /\ At(a, "rm")
    /\ labels' = [labels EXCEPT ![l] = "none"]
    /\ unlinked' = unlinked \cup {b \in Actors : step[b] = "put" /\ call[b].label = l}
    /\ torn' = torn \ {l}
    /\ Returns(a, IF labels[l] = "none" THEN "err" ELSE Nothing)
    /\ UNCHANGED <<data, writes, alive, call, damaged, bounds>>

-----------------------------------------------------------------------------
(* Faults.                                                                 *)

\* The actor is stopped by force and its call dropped.  A file operation that has
\* begun goes on; an open File is closed.
Abort(a, begun) ==
    /\ a \in alive /\ step[a] # "idle" /\ Fault
    /\ alive' = alive \ {a}
    /\ step' = [step EXCEPT ![a] = IF @ = "put" \/ (begun /\ @ \in {"create", "trunc", "rm"})
                                   THEN @ ELSE "idle"]
    /\ damaged' = IF step[a] = "write" /\ data[call[a].content] = "part"
                  THEN damaged \cup {call[a].content} ELSE damaged
    /\ UNCHANGED <<files, writes, unlinked, call, result, torn, calls>>

\* The process ends and is started again, with the files as they are.
Crash ==
    /\ Fault
    /\ writes' = [a \in Actors |-> {}]
    /\ unlinked' = {} /\ alive' = Actors
    /\ step' = [a \in Actors |-> "idle"]
    /\ call' = [a \in Actors |-> Nothing]
    /\ result' = [a \in Actors |-> Nothing]
    /\ damaged' = damaged \cup {h \in Contents : data[h] = "part"}
    /\ torn' = torn \cup {l \in Labels : labels[l] = "part"}
    /\ UNCHANGED <<files, calls>>

-----------------------------------------------------------------------------
StepOf(a) ==
    \/ Stat(a) \/ Create(a) \/ Write(a) \/ Read(a)
    \/ Truncate(a) \/ Put(a) \/ LabelStat(a) \/ LabelRead(a) \/ Remove(a)

Faulty(a) ==
    \/ StatFails(a) \/ CreateFails(a) \/ TruncateFails(a) \/ PutFails(a)
    \/ \E h \in Contents : WriteFails(a, h)
    \/ \E begun \in BOOLEAN : Abort(a, begun)

StoreNext ==
    \/ \E a \in Actors :
         \/ \E o \in Functions, h \in Contents \cup {Nothing}, l \in Labels \cup {Nothing} :
              CallHost(a, o, h, l)
         \/ StepOf(a) \/ Faulty(a)
         \/ \E h \in Contents : WriteLands(a, h)
    \/ Crash

StoreSpec == StoreInit /\ [][StoreNext]_storeVars

\* Calls go on and file operations end.
StoreFairness ==
    \A a \in Actors :
        /\ WF_storeVars(StepOf(a))
        /\ \A h \in Contents : WF_storeVars(WriteLands(a, h))

StoreLiveSpec == StoreSpec /\ StoreFairness

-----------------------------------------------------------------------------
(* Properties.                                                             *)

\* A label that names a content names one that has a file, and so does the
\* reference that get-by-label has returned, whatever calls raced and wherever a
\* call or the process was cut off: label looks for the content and
\* store_at_label creates it first, and no content is ever removed.
LabelHasContent ==
    /\ \A l \in Labels : labels[l] \in Contents => data[labels[l]] # "none"
    /\ \A a \in Actors : result[a] \in Contents => data[result[a]] # "none"

\* An incomplete file is one that somebody is about to complete.  It stays so
\* only when the write was lost: the call dropped after File::create, the write
\* failed, or the process ended.
IncompleteInWork ==
    /\ \A h \in Contents : data[h] = "part" =>
         \/ h \in damaged
         \/ \E a \in Actors : h \in writes[a]
         \/ \E a \in alive : step[a] = "write" /\ call[a].content = h
    /\ \A l \in Labels : labels[l] = "part" =>
         \/ l \in torn
         \/ \E a \in Actors \ unlinked : step[a] = "put" /\ call[a].label = l

\* Whatever calls race and wherever they are cut off, the files agree with the
\* calls at work on them.
FilesAgree == StoreTypeOK /\ LabelHasContent /\ IncompleteInWork

\* Content becomes complete, although its File was dropped and its actor may be
\* gone, unless its write was lost.
ContentSettles ==
    \A h \in Contents : (data[h] = "part") ~> (data[h] = "full" \/ h \in damaged)

=============================================================================
