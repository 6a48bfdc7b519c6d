--------------------------- MODULE LocalSpoolProofs ---------------------------
(***************************************************************************)
(* TLAPS proofs about LocalSpool, for every number of hooks, syncers and   *)
(* files, and any number of kills and power losses.                        *)
(***************************************************************************)
EXTENDS LocalSpool, TLAPS

\* What a hook holds while it works: an event, and once its file has its
\* name, one that only a delivery takes out of pending.
HookWork ==
    \A h \in Hooks :
        /\ pc[h] # "idle" => file[h] \in Events
        /\ pc[h] = "fsync" => file[h] \in stored \/ file[h] \in Pending

\* What a syncer holds: an event to push, a stored one to mark, a malformed
\* file to set aside.
SyncWork ==
    \A s \in Syncers :
        /\ pc[s] = "push" => file[s] \in Events
        /\ pc[s] = "mark" => file[s] \in stored
        /\ pc[s] = "quarantine" => file[s] \in Malformed

\* QuarantineExact for what a power loss would leave, too.
Placed ==
    \A f \in Files :
        /\ f \in Malformed => /\ dirs[f] # {} /\ "sent" \notin dirs[f]
                              /\ disk[f] # {} /\ "sent" \notin disk[f]
        /\ "failed" \in dirs[f] \cup disk[f] => f \in Malformed

IInv == /\ TypeOK /\ HookWork /\ SyncWork
        /\ SentIsStored /\ PromisedNeverLost /\ Placed

\* A step that leaves the directories and the server alone.
LEMMA FilesAlone ==
    ASSUME IInv, TypeOK', HookWork', SyncWork', UNCHANGED <<dirs, disk>>,
           stored \subseteq stored', promised' = promised
    PROVE  IInv'
BY DEF IInv, SentIsStored, PromisedNeverLost, Placed, Pending

\* An fsync of any directories keeps every file where it is.
LEMMA FsyncKeeps ==
    ASSUME IInv, NEW D, D \subseteq Dirs, "pending" \in D, Fsync(D), dirs' = dirs,
           UNCHANGED stored, promised' \subseteq promised \cup stored \cup Pending,
           TypeOK', HookWork', SyncWork'
    PROVE  IInv'
<1>1. \A f \in Files : /\ disk'[f] \in {dirs[f], disk[f]}
                       /\ "pending" \in dirs[f] => disk'[f] = dirs[f]
  BY DEF Fsync, IInv, TypeOK
<1>2. SentIsStored' /\ Placed'
  BY <1>1 DEF IInv, SentIsStored, Placed, Files
<1>3. PromisedNeverLost'
  BY <1>1 DEF IInv, PromisedNeverLost, Pending, Files, TypeOK
<1>4. QED
  BY <1>2, <1>3 DEF IInv

LEMMA SpoolInit == Init => IInv
<1> SUFFICES ASSUME Init PROVE IInv
  OBVIOUS
<1>1. TypeOK
  BY SpoolAssumption DEF Init, TypeOK, Labels, Files, Dirs, Processes
<1>2. HookWork /\ SyncWork
  BY DEF Init, HookWork, SyncWork, Processes
<1>3. SentIsStored /\ PromisedNeverLost /\ Placed
  BY SpoolAssumption DEF Init, SentIsStored, PromisedNeverLost, Placed, Files
<1>4. QED
  BY <1>1, <1>2, <1>3 DEF IInv

\* A process that gives up is at a label, and its listing is empty.
LEMMA AbortTypes ==
    ASSUME TypeOK, NEW p \in Processes, Abort(p)
    PROVE  pc' \in [Processes -> Labels] /\ todo' \in [Syncers -> SUBSET (Nat \X Files)]
<1>1. pc' \in [Processes -> Labels]
  BY DEF TypeOK, Abort, Goto, Labels
<1>2. \A s \in Syncers : todo[s] \in SUBSET (Nat \X Files)
  BY DEF TypeOK
<1>3. todo' \in [Syncers -> SUBSET (Nat \X Files)]
  BY <1>2 DEF Abort
<1>4. QED
  BY <1>1, <1>3

\* One process moves to a label with what that label asks of it, and events
\* leave pending for the server only.
LEMMA Moves ==
    ASSUME TypeOK, HookWork, SyncWork, NEW p \in Processes, NEW l, Goto(p, l),
           \A q \in Processes \ {p} : file'[q] = file[q],
           stored \subseteq stored',
           \A e \in Events \cap Pending : e \in stored' \cup Pending',
           p \in Hooks => /\ l # "idle" => file'[p] \in Events
                          /\ l = "fsync" => file'[p] \in stored' \cup Pending',
           p \in Syncers => /\ l = "push" => file'[p] \in Events
                            /\ l = "mark" => file'[p] \in stored'
                            /\ l = "quarantine" => file'[p] \in Malformed
    PROVE  HookWork' /\ SyncWork'
<1>1. pc'[p] = l /\ \A q \in Processes \ {p} : pc'[q] = pc[q]
  BY DEF TypeOK, Goto
<1>2. ASSUME NEW h \in Hooks
      PROVE  /\ pc'[h] # "idle" => file'[h] \in Events
             /\ pc'[h] = "fsync" => file'[h] \in stored' \cup Pending'
  <2>1. CASE h = p
    BY <1>1, <2>1
  <2>2. CASE h # p
    BY <1>1, <2>2 DEF HookWork, Processes
  <2>3. QED
    BY <2>1, <2>2
<1>3. ASSUME NEW s \in Syncers
      PROVE  /\ pc'[s] = "push" => file'[s] \in Events
             /\ pc'[s] = "mark" => file'[s] \in stored'
             /\ pc'[s] = "quarantine" => file'[s] \in Malformed
  <2>1. CASE s = p
    BY <1>1, <2>1
  <2>2. CASE s # p
    BY <1>1, <2>2 DEF SyncWork, Processes
  <2>3. QED
    BY <2>1, <2>2
<1>4. QED
  BY <1>2, <1>3 DEF HookWork, SyncWork

\* The same for a process that gives up: no label asks anything of it.
LEMMA Gives ==
    ASSUME TypeOK, HookWork, SyncWork, NEW p \in Processes, Abort(p), pc[p] # "idle",
           p \in Syncers \/ file'[p] = file[p],
           \A q \in Processes \ {p} : file'[q] = file[q],
           stored \subseteq stored', dirs' = dirs
    PROVE  HookWork' /\ SyncWork'
<1> DEFINE l == IF p \in Hooks THEN "ended" ELSE "idle"
<1>1. Goto(p, l)
  BY DEF Abort
<1>2. p \in Hooks => file'[p] \in Events
  BY SpoolAssumption DEF HookWork
<1>3. \A e \in Events \cap Pending : e \in stored' \cup Pending'
  BY DEF Pending
<1>4. l \in {"ended", "idle"}
  OBVIOUS
<1> HIDE DEF l
<1>5. QED
  BY <1>1, <1>2, <1>3, <1>4, Moves

\* What the two moves of a file out of pending have in common.
LEMMA Renamed ==
    ASSUME IInv, TypeOK', HookWork', SyncWork', NEW f \in Files, NEW d \in {"sent", "failed"},
           dirs' = [dirs EXCEPT ![f] = (@ \ {"pending"}) \cup {d}],
           UNCHANGED <<disk, stored, promised>>,
           d = "sent" => f \in stored,
           d = "failed" => f \in Malformed
    PROVE  IInv'
<1>1. /\ dirs'[f] = (dirs[f] \ {"pending"}) \cup {d}
      /\ \A g \in Files \ {f} : dirs'[g] = dirs[g]
  BY DEF IInv, TypeOK
<1>2. Events \subseteq Files /\ Malformed \subseteq Files /\ stored \subseteq Events
      /\ promised \subseteq Events /\ Events \cap Malformed = {}
  BY SpoolAssumption DEF Files, IInv, TypeOK
<1>3. SentIsStored'
  BY <1>1, <1>2 DEF IInv, SentIsStored
<1>4. PromisedNeverLost'
  BY <1>1, <1>2 DEF IInv, PromisedNeverLost, Pending
<1>5. Placed'
  BY <1>1, <1>2 DEF IInv, Placed
<1>6. QED
  BY <1>3, <1>4, <1>5 DEF IInv

LEMMA SpoolStep == IInv /\ [Next]_vars => IInv'
<1> SUFFICES ASSUME IInv, [Next]_vars PROVE IInv'
  OBVIOUS
<1>a. TypeOK /\ HookWork /\ SyncWork
  BY DEF IInv
<1>e. Events \subseteq Files /\ Malformed \subseteq Files /\ stored \subseteq Events
      /\ Hooks \subseteq Processes /\ Syncers \subseteq Processes /\ Hooks \cap Syncers = {}
  BY <1>a, SpoolAssumption DEF Files, TypeOK, Processes
<1>1. ASSUME NEW h \in Hooks, StartHook(h) PROVE IInv'
  <2>1. PICK e \in Events :
            /\ file' = [file EXCEPT ![h] = e]
            /\ before' = IF before[e] = {e} THEN [before EXCEPT ![e] = promised] ELSE before
    BY <1>1 DEF StartHook
  <2>2. before' \in [Events -> SUBSET Events]
    BY <1>a, <2>1 DEF TypeOK
  <2>3. file' \in [Processes -> Files \cup {None}] /\ file'[h] = e
        /\ \A q \in Processes \ {h} : file'[q] = file[q]
    BY <1>a, <1>e, <2>1 DEF TypeOK
  <2>4. pc' \in [Processes -> Labels]
    BY <1>1, <1>a DEF StartHook, Goto, TypeOK, Labels
  <2>5. TypeOK'
    BY <1>1, <1>a, <2>2, <2>3, <2>4 DEF StartHook, TypeOK, fs, bounds
  <2>6. HookWork' /\ SyncWork'
    BY <1>1, <1>a, <1>e, <2>3, Moves DEF StartHook, fs, Pending
  <2>7. QED
    BY <1>1, <2>5, <2>6, FilesAlone DEF StartHook, fs
<1>2. ASSUME NEW s \in Syncers, StartPass(s) \/ EndPass(s) \/ List(s) PROVE IInv'
  <2>1. pc' \in [Processes -> Labels]
    BY <1>2, <1>a DEF StartPass, EndPass, List, Goto, TypeOK, Labels
  <2>2. todo' \in [Syncers -> SUBSET (Nat \X Files)]
    <3>1. CASE StartPass(s) \/ EndPass(s)
      BY <3>1, <1>a DEF StartPass, EndPass, TypeOK
    <3>2. CASE List(s)
      <4>1. PICK L \in SUBSET Pending : todo' = [todo EXCEPT ![s] = {<<mtime[f], f>> : f \in L}]
        BY <3>2 DEF List
      <4>2. {<<mtime[f], f>> : f \in L} \in SUBSET (Nat \X Files)
        BY <1>a DEF TypeOK, Pending
      <4>3. QED
        BY <4>1, <4>2, <1>a DEF TypeOK
    <3>3. QED
      BY <3>1, <3>2, <1>2
  <2>3. TypeOK'
    BY <1>2, <1>a, <2>1, <2>2 DEF StartPass, EndPass, List, TypeOK, fs, history
  <2>4. HookWork' /\ SyncWork'
    BY <1>2, <1>a, <1>e, Moves DEF StartPass, EndPass, List, fs, Pending
  <2>5. QED
    BY <1>2, <2>3, <2>4, FilesAlone DEF StartPass, EndPass, List, fs, history
<1>3. ASSUME NEW p \in Processes, OpenStep(p) PROVE IInv'
  <2>0. pc[p] # "idle" /\ UNCHANGED <<fs, file, now, written, stored, history>>
    BY <1>3 DEF OpenStep, Open, SeeChild, ChmodChild
  <2>1. \/ Goto(p, "put") /\ p \in Hooks /\ UNCHANGED todo
        \/ Goto(p, "list") /\ p \in Syncers /\ UNCHANGED todo
        \/ Goto(p, "chmod") /\ UNCHANGED todo
        \/ Abort(p)
    BY <1>3, <1>e DEF OpenStep, Open, SeeChild, ChmodChild, Opened, Processes
  <2>2. pc' \in [Processes -> Labels] /\ todo' \in [Syncers -> SUBSET (Nat \X Files)]
    BY <2>1, <1>a, AbortTypes DEF Goto, TypeOK, Labels
  <2>3. child' \in [Processes -> {<<>>} \cup (Files \X Dirs)]
    <3>1. CASE Open(p)
      BY <3>1, <1>a DEF Open, TypeOK
    <3>2. CASE ChmodChild(p)
      BY <3>2, <1>a DEF ChmodChild, TypeOK
    <3>3. ASSUME NEW f \in Files, NEW d \in Dirs, SeeChild(p, f, d)
          PROVE  child' \in [Processes -> {<<>>} \cup (Files \X Dirs)]
      BY <3>3, <1>a DEF SeeChild, TypeOK
    <3>4. QED
      BY <3>1, <3>2, <3>3, <1>3 DEF OpenStep
  <2>4. TypeOK'
    BY <1>a, <2>0, <2>2, <2>3 DEF TypeOK, fs, history
  <2>5. HookWork' /\ SyncWork'
    <3>1. CASE Abort(p)
      BY <3>1, <2>0, <1>a, Gives DEF fs
    <3>2. CASE Goto(p, "put") \/ Goto(p, "list") \/ Goto(p, "chmod")
      <4>1. p \in Hooks => file'[p] \in Events
        BY <2>0, <1>a DEF HookWork
      <4>2. QED
        BY <3>2, <4>1, <2>0, <1>a, <1>e, Moves DEF fs, Pending
    <3>3. QED
      BY <3>1, <3>2, <2>1
  <2>6. QED
    BY <2>0, <2>4, <2>5, FilesAlone DEF fs, history
<1>4. ASSUME NEW h \in Hooks, PutExists(h) \/ PutAbsent(h) \/ PutWrite(h) PROVE IInv'
  <2>0. pc[h] # "idle" /\ UNCHANGED <<fs, file, child, todo, stored, history>>
    BY <1>4 DEF PutExists, PutAbsent, PutWrite
  <2>1. pc' \in [Processes -> Labels]
    BY <1>4, <1>a DEF PutExists, PutAbsent, PutWrite, Goto, TypeOK, Labels
  <2>2. now' \in Nat /\ written' \in [Hooks -> Nat]
    <3>1. CASE PutWrite(h)
      <4>1. now + 1 \in Nat /\ written \in [Hooks -> Nat]
        BY <1>a DEF TypeOK
      <4>2. QED
        BY <3>1, <4>1 DEF PutWrite
    <3>2. CASE PutExists(h) \/ PutAbsent(h)
      BY <3>2, <1>a DEF PutExists, PutAbsent, TypeOK
    <3>3. QED
      BY <3>1, <3>2, <1>4
  <2>3. TypeOK'
    BY <2>0, <1>a, <2>1, <2>2 DEF TypeOK, fs, history
  <2>4. Goto(h, "ended") \/ Goto(h, "write") \/ Goto(h, "replace")
    BY <1>4 DEF PutExists, PutAbsent, PutWrite
  <2>5. HookWork' /\ SyncWork'
    <3>1. file'[h] \in Events
      BY <2>0, <1>a DEF HookWork
    <3>2. QED
      BY <3>1, <2>0, <2>4, <1>a, <1>e, Moves DEF fs, Pending
  <2>6. QED
    BY <2>0, <2>3, <2>5, FilesAlone DEF fs, history
<1>5. ASSUME NEW h \in Hooks, PutReplace(h) PROVE IInv'
  <2>0. file[h] \in Events
    BY <1>5, <1>a DEF PutReplace, HookWork
  <2>1. /\ dirs'[file[h]] = dirs[file[h]] \cup {"pending"}
        /\ \A f \in Files \ {file[h]} : dirs'[f] = dirs[f]
        /\ UNCHANGED <<disk, stored, promised, file>>
    BY <1>5, <2>0, <1>a, <1>e DEF PutReplace, TypeOK, history
  <2>2. TypeOK'
    BY <1>5, <1>a, <2>0, <1>e DEF PutReplace, Goto, TypeOK, Labels, Dirs, history
  <2>3. HookWork' /\ SyncWork'
    BY <1>5, <1>a, <1>e, <2>0, <2>1, Moves DEF PutReplace, Pending
  <2>4. SentIsStored' /\ PromisedNeverLost' /\ Placed'
    BY <1>e, <2>0, <2>1, SpoolAssumption DEF IInv, SentIsStored, PromisedNeverLost, Placed, Pending
  <2>5. QED
    BY <2>2, <2>3, <2>4 DEF IInv
<1>6. ASSUME NEW h \in Hooks, PutFsync(h) PROVE IInv'
  <2>1. file[h] \in Events /\ file[h] \in stored \cup Pending
    BY <1>6, <1>a DEF PutFsync, HookWork
  <2>2. TypeOK'
    BY <1>6, <1>a, <2>1 DEF PutFsync, Fsync, Goto, TypeOK, Labels, bounds
  <2>3. HookWork' /\ SyncWork'
    BY <1>6, <1>a, <1>e, <2>1, Moves DEF PutFsync, Pending
  <2>4. QED
    BY <1>6, <2>1, <2>2, <2>3, FsyncKeeps DEF PutFsync, Dirs
<1>7. ASSUME NEW s \in Syncers, Read(s) PROVE IInv'
  <2>1. PICK x \in todo[s] :
            /\ file' = [file EXCEPT ![s] = x[2]]
            /\ IF x[2] \in Pending \ Undecodable
               THEN /\ todo' = [todo EXCEPT ![s] = @ \ {x}]
                    /\ Goto(s, IF x[2] \in Malformed THEN "quarantine" ELSE "push")
               ELSE Abort(s)
    BY <1>7 DEF Read
  <2>2. x[2] \in Files
    BY <1>a, <2>1 DEF TypeOK
  <2>3. /\ file' \in [Processes -> Files \cup {None}]
        /\ file'[s] = x[2]
        /\ \A q \in Processes \ {s} : file'[q] = file[q]
    BY <1>a, <1>e, <2>1, <2>2 DEF TypeOK
  <2>4. CASE x[2] \in Pending \ Undecodable
    <3>1. \/ Goto(s, "quarantine") /\ x[2] \in Malformed
          \/ Goto(s, "push") /\ x[2] \in Events
      BY <2>1, <2>2, <2>4 DEF Files
    <3>2. pc' \in [Processes -> Labels]
      BY <3>1, <1>a DEF Goto, TypeOK, Labels
    <3>3. todo' \in [Syncers -> SUBSET (Nat \X Files)]
      <4>1. todo \in [Syncers -> SUBSET (Nat \X Files)]
        BY <1>a DEF TypeOK
      <4>2. todo[s] \ {x} \in SUBSET (Nat \X Files)
        BY <4>1
      <4>3. todo' = [todo EXCEPT ![s] = todo[s] \ {x}]
        BY <2>1, <2>4
      <4>4. QED
        BY <4>1, <4>2, <4>3
    <3>4. TypeOK'
      BY <1>7, <1>a, <2>3, <3>2, <3>3 DEF Read, TypeOK, fs, history
    <3>5. HookWork' /\ SyncWork'
      BY <1>7, <1>a, <1>e, <2>3, <3>1, Moves DEF Read, fs, Pending
    <3>6. QED
      BY <1>7, <3>4, <3>5, FilesAlone DEF Read, fs, history
  <2>5. CASE x[2] \notin Pending \ Undecodable
    <3>1. Abort(s)
      BY <2>1, <2>5
    <3>2. TypeOK'
      BY <1>7, <1>a, <1>e, <2>3, <3>1, AbortTypes DEF Read, TypeOK, fs, history
    <3>3. HookWork' /\ SyncWork'
      BY <1>7, <1>a, <1>e, <2>3, <3>1, Gives DEF Read, fs
    <3>4. QED
      BY <1>7, <3>2, <3>3, FilesAlone DEF Read, fs, history
  <2>6. QED
    BY <2>4, <2>5
<1>8. ASSUME NEW s \in Syncers, PushOk(s) \/ PushFails(s) PROVE IInv'
  <2>1. file[s] \in Events
    BY <1>8, <1>a DEF PushOk, PushFails, SyncWork
  <2>2. CASE PushOk(s)
    <3>1. TypeOK'
      BY <2>2, <1>a, <2>1 DEF PushOk, Goto, TypeOK, Labels, fs, history
    <3>2. HookWork' /\ SyncWork'
      BY <2>2, <1>a, <1>e, Moves DEF PushOk, fs, Pending
    <3>3. QED
      BY <2>2, <3>1, <3>2, FilesAlone DEF PushOk, fs, history
  <2>3. CASE PushFails(s)
    <3>1. TypeOK'
      BY <2>3, <1>a, <1>e, <2>1, AbortTypes DEF PushFails, TypeOK, fs, history
    <3>2. HookWork' /\ SyncWork'
      BY <2>3, <1>a, <1>e, Gives DEF PushFails, fs
    <3>3. QED
      BY <2>3, <3>1, <3>2, FilesAlone DEF PushFails, fs, history
  <2>4. QED
    BY <2>2, <2>3, <1>8
<1>9. ASSUME NEW s \in Syncers, QuarantineFsync(s) \/ MarkSentFsync(s) PROVE IInv'
  <2>1. TypeOK'
    BY <1>9, <1>a DEF QuarantineFsync, MarkSentFsync, Fsync, Goto, TypeOK, Labels, history
  <2>2. HookWork' /\ SyncWork'
    BY <1>9, <1>a, <1>e, Moves DEF QuarantineFsync, MarkSentFsync, Pending
  <2>3. QED
    BY <1>9, <2>1, <2>2, FsyncKeeps DEF QuarantineFsync, MarkSentFsync, Dirs, history
<1>10. ASSUME NEW s \in Syncers, Quarantine(s) \/ MarkSent(s) PROVE IInv'
  <2>0. /\ pc[s] # "idle"
        /\ UNCHANGED <<disk, mtime, now, file, child, written, stored, history>>
    BY <1>10 DEF Quarantine, MarkSent
  <2>1. CASE file[s] \notin Pending
    <3>1. Abort(s) /\ UNCHANGED dirs
      BY <1>10, <2>1 DEF Quarantine, MarkSent
    <3>2. TypeOK'
      BY <2>0, <3>1, <1>a, <1>e, AbortTypes DEF TypeOK, history
    <3>3. HookWork' /\ SyncWork'
      BY <2>0, <3>1, <1>a, <1>e, Gives
    <3>4. QED
      BY <2>0, <3>1, <3>2, <3>3, FilesAlone DEF history
  <2>2. CASE file[s] \in Pending
    <3>1. PICK d \in {"sent", "failed"} :
              /\ dirs' = [dirs EXCEPT ![file[s]] = (@ \ {"pending"}) \cup {d}]
              /\ Goto(s, IF d = "sent" THEN "sfsync" ELSE "qfsync") /\ UNCHANGED todo
              /\ d = "sent" => file[s] \in stored
              /\ d = "failed" => file[s] \in Malformed
      <4>1. CASE Quarantine(s)
        BY <4>1, <2>2, <1>a DEF Quarantine, Continue, SyncWork
      <4>2. CASE MarkSent(s)
        BY <4>2, <2>2, <1>a DEF MarkSent, Continue, SyncWork
      <4>3. QED
        BY <4>1, <4>2, <1>10
    <3>2. file[s] \in Files
      BY <2>2 DEF Pending
    <3>3. dirs' \in [Files -> SUBSET Dirs] /\ pc' \in [Processes -> Labels]
      BY <3>1, <3>2, <1>a DEF TypeOK, Dirs, Goto, Labels
    <3>4. TypeOK'
      BY <2>0, <3>1, <3>3, <1>a DEF TypeOK, history
    <3>5. \A e \in Events \cap Pending : e \in stored' \cup Pending'
      BY <2>0, <3>1, <3>2, <1>a, SpoolAssumption DEF Pending, TypeOK
    <3>6. HookWork' /\ SyncWork'
      BY <2>0, <3>1, <3>5, <1>a, <1>e, Moves
    <3>7. QED
      BY <2>0, <3>1, <3>2, <3>4, <3>6, Renamed DEF history
  <2>3. QED
    BY <2>1, <2>2
<1>11. ASSUME NEW s \in Syncers, PruneSent(s) PROVE IInv'
  <2>1. PICK O \in SUBSET Sent : dirs' = [f \in Files |-> IF f \in O THEN dirs[f] \ {"sent"} ELSE dirs[f]]
    BY <1>11 DEF PruneSent
  <2>2. \A f \in Files : /\ dirs'[f] \subseteq dirs[f]
                         /\ dirs'[f] # dirs[f] => "sent" \in dirs[f]
                         /\ "pending" \in dirs[f] <=> "pending" \in dirs'[f]
    BY <2>1 DEF Sent
  <2>3. dirs' \in [Files -> SUBSET Dirs]
    BY <1>a, <2>1 DEF TypeOK
  <2>4. TypeOK'
    BY <1>11, <1>a, <2>3 DEF PruneSent, Goto, TypeOK, Labels, history
  <2>5. HookWork' /\ SyncWork'
    BY <1>11, <1>a, <1>e, <2>2, Moves DEF PruneSent, Pending
  <2>6. SentIsStored' /\ PromisedNeverLost' /\ Placed'
    BY <1>11, <1>a, <1>e, <2>2 DEF PruneSent, IInv, SentIsStored, PromisedNeverLost, Placed, Pending, history
  <2>7. QED
    BY <2>4, <2>5, <2>6 DEF IInv
<1>12. ASSUME NEW p \in Processes, Kill(p) PROVE IInv'
  <2>1. todo' \in [Syncers -> SUBSET (Nat \X Files)]
    <3>1. \A s \in Syncers : todo[s] \in SUBSET (Nat \X Files)
      BY <1>a DEF TypeOK
    <3>2. QED
      BY <3>1, <1>12 DEF Kill
  <2>2. TypeOK'
    BY <1>12, <1>a, <2>1 DEF Kill, TypeOK, Labels, fs, history
  <2>3. Goto(p, "idle") /\ UNCHANGED <<fs, file, stored, history>>
    BY <1>12 DEF Kill, Goto
  <2>4. HookWork' /\ SyncWork'
    BY <2>3, <1>a, <1>e, Moves DEF fs, Pending
  <2>5. QED
    BY <2>2, <2>3, <2>4, FilesAlone DEF fs, history
<1>13. CASE PowerLoss
  <2>1. \A f \in Files : dirs'[f] \in {dirs[f], disk[f]} /\ disk'[f] = dirs'[f]
    BY <1>13 DEF PowerLoss
  <2>2. dirs' \in [Files -> SUBSET Dirs]
    BY <1>13, <1>a DEF PowerLoss, TypeOK
  <2>3. TypeOK'
    BY <1>13, <1>a, <2>2 DEF PowerLoss, TypeOK, Labels, history
  <2>4. HookWork' /\ SyncWork'
    BY <1>13, <1>e DEF PowerLoss, HookWork, SyncWork
  <2>5. SentIsStored' /\ Placed'
    BY <1>13, <1>e, <2>1 DEF PowerLoss, IInv, SentIsStored, Placed
  <2>6. PromisedNeverLost'
    BY <1>13, <1>a, <1>e, <2>1 DEF PowerLoss, IInv, PromisedNeverLost, Pending, TypeOK, history
  <2>7. QED
    BY <2>3, <2>4, <2>5, <2>6 DEF IInv
<1>14. CASE UNCHANGED vars
  BY <1>14 DEF vars, IInv, TypeOK, HookWork, SyncWork, SentIsStored, PromisedNeverLost, Placed, Pending
<1>15. QED
  BY <1>1, <1>2, <1>3, <1>4, <1>5, <1>6, <1>7, <1>8, <1>9, <1>10, <1>11, <1>12, <1>13,
     <1>14 DEF Next, HookStep, SyncStep

\* The inductive invariant of the spool.
THEOREM SpoolInductive == Spec => []IInv
BY SpoolInit, SpoolStep, PTL DEF Spec

\* Every variable of the spool keeps its type.
THEOREM SpoolTypes == Spec => []TypeOK
<1>1. IInv => TypeOK
  BY DEF IInv
<1>2. QED
  BY <1>1, SpoolInductive, PTL

\* An event whose put returned after its fsync is on the server or durably in
\* pending: no kill, power loss or race of syncers loses it (spool.py:34).
THEOREM NeverLost == Spec => []PromisedNeverLost
<1>1. IInv => PromisedNeverLost
  BY DEF IInv
<1>2. QED
  BY <1>1, SpoolInductive, PTL

\* A receipt in sent/ is the receipt of a stored event (spool.py:207-208).
THEOREM ReceiptsTrue == Spec => []SentIsStored
<1>1. IInv => SentIsStored
  BY DEF IInv
<1>2. QED
  BY <1>1, SpoolInductive, PTL

\* Malformed files are kept and set aside, and nothing else is
\* (spool.py:201-203).
THEOREM QuarantineIsExact == Spec => []QuarantineExact
<1>1. IInv => QuarantineExact
  BY DEF IInv, Placed, QuarantineExact
<1>2. QED
  BY <1>1, SpoolInductive, PTL

-----------------------------------------------------------------------------
(* Order *)

\* A hook at work.
Active(h) == pc[h] \notin {"idle", "ended"}

\* The clock is ahead of every time that was read from it.
Clocks ==
    /\ \A f \in Files : mtime[f] <= now
    /\ \A h \in Hooks : written[h] <= now

\* An event is nowhere until a hook captures it; then what came before is known.
Captured ==
    /\ tries \in [Events -> Nat]
    /\ \A e \in Events :
        /\ tries[e] = 0 => /\ before[e] = {e} /\ e \notin promised \cup stored
                           /\ dirs[e] = {} /\ disk[e] = {}
        /\ tries[e] # 0 => e \notin before[e] /\ before[e] \subseteq promised
    /\ \A h \in Hooks : Active(h) => tries[file[h]] # 0
    /\ \A s \in Syncers : /\ pc[s] = "push" => tries[file[s]] # 0
                          /\ \A x \in todo[s] : x[2] \in Events => tries[x[2]] # 0

\* Only a second capture works on an event that was promised, or beside another.
Runs ==
    /\ \A h \in Hooks : Active(h) /\ file[h] \in promised => tries[file[h]] # 1
    /\ \A h, g \in Hooks :
           Active(h) /\ Active(g) /\ h # g /\ file[h] = file[g] => tries[file[h]] # 1

\* d was captured once, and promised before the capture of e began.
Precedes(d, e) == e \in Events /\ tries[e] # 0 /\ d \in before[e] /\ tries[d] = 1

\* Its file is older.
Younger ==
    \A d, e \in Events : Precedes(d, e) =>
        /\ "pending" \in dirs[e] \cup disk[e] => mtime[d] < mtime[e]
        /\ \A h \in Hooks : pc[h] = "replace" /\ file[h] = e => mtime[d] < written[h]

\* A listing has it before e, unless it is on the server or just being pushed.
Listed ==
    \A s \in Syncers : \A x \in todo[s] : \A d \in Events : Precedes(d, x[2]) =>
        \/ d \in stored \/ (pc[s] = "push" /\ file[s] = d)
        \/ \E y \in todo[s] : y[2] = d /\ y[1] < x[1]

\* What is pushed has all before it stored.
Pushing ==
    \A s \in Syncers : \A d \in Events : pc[s] = "push" /\ Precedes(d, file[s]) => d \in stored

OInv == Clocks /\ Captured /\ Runs /\ Younger /\ Listed /\ Pushing /\ OrderPreserved

\* Events are files, and a hook is no syncer.
LEMMA Kinds ==
    ASSUME IInv
    PROVE  /\ TypeOK /\ Events \subseteq Files /\ stored \subseteq Events /\ promised \subseteq Events
           /\ Hooks \subseteq Processes /\ Syncers \subseteq Processes /\ Hooks \cap Syncers = {}
           /\ \A h \in Hooks : Active(h) => file[h] \in Events
           /\ \A s \in Syncers : pc[s] = "push" => file[s] \in Events
BY SpoolAssumption DEF IInv, TypeOK, Files, Processes, HookWork, SyncWork, Active

\* What a step leaves as it is: each hook at work on its event ...
HooksStay == \A h \in Hooks : Active(h)' => Active(h) /\ file'[h] = file[h]

\* ... and each listing, or nothing of it, with what is being pushed.
SyncersStay ==
    \A s \in Syncers :
        /\ pc'[s] = "push" => pc[s] = "push" /\ file'[s] = file[s]
        /\ \/ todo'[s] = {}
           \/ /\ todo'[s] = todo[s]
              /\ pc[s] = "push" => \/ file[s] \in stored'
                                   \/ pc'[s] = "push" /\ file'[s] = file[s]

\* The server gets what a syncer pushes.
Delivers ==
    /\ stored \subseteq stored'
    /\ \A e \in stored' \ stored : \E s \in Syncers : pc[s] = "push" /\ file[s] = e

LEMMA RunsKept ==
    ASSUME Runs, HooksStay, tries' = tries, promised' = promised
    PROVE  Runs'
BY DEF Runs, HooksStay

LEMMA SyncersKept ==
    ASSUME Listed, Pushing, SyncersStay, Delivers, UNCHANGED <<before, tries>>
    PROVE  Listed' /\ Pushing'
<1>1. \A d, e : Precedes(d, e)' <=> Precedes(d, e)
  BY DEF Precedes
<1>2. ASSUME NEW s \in Syncers, NEW x \in todo'[s], NEW d \in Events, Precedes(d, x[2])
      PROVE  \/ d \in stored' \/ (pc'[s] = "push" /\ file'[s] = d)
             \/ \E y \in todo'[s] : y[2] = d /\ y[1] < x[1]
  <2>1. /\ todo'[s] = todo[s]
        /\ pc[s] = "push" => file[s] \in stored' \/ (pc'[s] = "push" /\ file'[s] = file[s])
    BY <1>2 DEF SyncersStay
  <2>2. \/ d \in stored \/ (pc[s] = "push" /\ file[s] = d)
        \/ \E y \in todo[s] : y[2] = d /\ y[1] < x[1]
    BY <1>2, <2>1 DEF Listed
  <2>3. QED
    BY <2>1, <2>2 DEF Delivers
<1>3. ASSUME NEW s \in Syncers, NEW d \in Events, pc'[s] = "push", Precedes(d, file'[s])
      PROVE  d \in stored'
  BY <1>3 DEF SyncersStay, Pushing, Delivers
<1>4. QED
  BY <1>1, <1>2, <1>3 DEF Listed, Pushing

LEMMA OrderKept ==
    ASSUME IInv, Captured, Pushing, OrderPreserved, Delivers, UNCHANGED <<before, tries>>
    PROVE  OrderPreserved'
<1> SUFFICES ASSUME NEW e \in stored', NEW d \in before[e], tries[d] = 1
             PROVE  d \in stored'
  BY DEF OrderPreserved
<1>1. CASE e \in stored
  BY <1>1 DEF OrderPreserved, Delivers
<1>2. CASE e \notin stored
  <2>1. PICK s \in Syncers : pc[s] = "push" /\ file[s] = e
    BY <1>2 DEF Delivers
  <2>2. e \in Events /\ tries[e] # 0
    BY <2>1, Kinds DEF Captured
  <2>3. d \in Events /\ Precedes(d, e)
    BY <2>2, Kinds DEF Precedes, TypeOK
  <2>4. QED
    BY <2>1, <2>3 DEF Pushing, Delivers
<1>3. QED
  BY <1>1, <1>2

LEMMA CapturedKept ==
    ASSUME IInv, Captured, UNCHANGED <<before, tries>>, HooksStay, Delivers,
           promised \subseteq promised', \A e \in promised' \ promised : tries[e] # 0,
           \A e \in Events : tries[e] = 0 /\ dirs[e] \cup disk[e] = {}
                               => dirs'[e] \cup disk'[e] = {},
           \A s \in Syncers :
               /\ pc'[s] = "push" => tries[file'[s]] # 0
               /\ \A x \in todo'[s] : x[2] \in Events => tries[x[2]] # 0
    PROVE  Captured'
<1>1. ASSUME NEW e \in Events, tries[e] = 0
      PROVE  e \notin promised' \cup stored' /\ dirs'[e] = {} /\ disk'[e] = {}
  <2>1. e \notin promised \cup stored /\ dirs[e] = {} /\ disk[e] = {}
    BY <1>1 DEF Captured
  <2>2. e \notin stored'
    BY <1>1, <2>1 DEF Captured, Delivers
  <2>3. QED
    BY <1>1, <2>1, <2>2
<1>2. \A h \in Hooks : Active(h)' => tries[file'[h]] # 0
  BY DEF Captured, HooksStay
<1>3. QED
  BY <1>1, <1>2 DEF Captured

LEMMA YoungerKept ==
    ASSUME Younger, UNCHANGED <<before, tries, mtime, written>>, HooksStay,
           \A h \in Hooks : pc'[h] = "replace" => pc[h] = "replace",
           \A f \in Events : "pending" \in dirs'[f] \cup disk'[f] => "pending" \in dirs[f] \cup disk[f]
    PROVE  Younger'
<1>1. \A d, e : Precedes(d, e)' <=> Precedes(d, e)
  BY DEF Precedes
<1>2. \A h \in Hooks : pc'[h] = "replace" => pc[h] = "replace" /\ file'[h] = file[h]
  BY DEF HooksStay, Active
<1>3. QED
  BY <1>1, <1>2 DEF Younger

\* A step that captures and lists nothing.
LEMMA OrderAlone ==
    ASSUME IInv, OInv, HooksStay, SyncersStay, Delivers,
           UNCHANGED <<before, tries, promised, mtime, written, now>>,
           \A h \in Hooks : pc'[h] = "replace" => pc[h] = "replace",
           \A f \in Events :
               /\ dirs[f] \cup disk[f] = {} => dirs'[f] \cup disk'[f] = {}
               /\ "pending" \in dirs'[f] \cup disk'[f] => "pending" \in dirs[f] \cup disk[f]
    PROVE  OInv'
<1> USE DEF OInv
<1>1. Clocks'
  BY DEF Clocks
<1>2. \A s \in Syncers :
          /\ pc'[s] = "push" => tries[file'[s]] # 0
          /\ \A x \in todo'[s] : x[2] \in Events => tries[x[2]] # 0
  BY DEF SyncersStay, Captured
<1>3. Captured'
  BY <1>2, CapturedKept
<1>4. QED
  BY <1>1, <1>3, RunsKept, YoungerKept, SyncersKept, OrderKept

LEMMA GotoReads ==
    ASSUME TypeOK, NEW p \in Processes, NEW l, Goto(p, l)
    PROVE  pc'[p] = l /\ \A q \in Processes \ {p} : pc'[q] = pc[q]
BY DEF TypeOK, Goto

LEMMA AbortReads ==
    ASSUME TypeOK, NEW p \in Processes, Abort(p)
    PROVE  /\ pc'[p] \in {"idle", "ended"} /\ \A q \in Processes \ {p} : pc'[q] = pc[q]
           /\ \A s \in Syncers : todo'[s] = IF s = p THEN {} ELSE todo[s]
BY DEF TypeOK, Abort, Goto

\* One process moves, and begins neither a capture nor a push.
LEMMA OneMoves ==
    ASSUME IInv, NEW p \in Processes,
           \A q \in Processes \ {p} : pc'[q] = pc[q] /\ file'[q] = file[q],
           \A s \in Syncers \ {p} : todo'[s] = todo[s],
           p \in Hooks /\ pc'[p] \notin {"idle", "ended"} => Active(p) /\ file'[p] = file[p],
           p \in Syncers => /\ pc'[p] # "push"
                            /\ \/ todo'[p] = {}
                               \/ todo'[p] = todo[p] /\ (pc[p] = "push" => file[p] \in stored')
    PROVE  HooksStay /\ SyncersStay
<1>1. Hooks \subseteq Processes /\ Syncers \subseteq Processes
  BY Kinds
<1>2. HooksStay
  BY <1>1 DEF HooksStay, Active
<1>3. SyncersStay
  BY <1>1 DEF SyncersStay
<1>4. QED
  BY <1>2, <1>3

\* A capture begins: of an event that is nowhere, or a second one.
LEMMA OrderStart ==
    ASSUME IInv, OInv, NEW h \in Hooks, StartHook(h)
    PROVE  OInv'
<1> USE DEF OInv
<1>0. UNCHANGED <<dirs, disk, mtime, now, written, todo, stored, promised>>
  BY DEF StartHook, fs
<1>1. PICK e \in Events :
          /\ tries' = [tries EXCEPT ![e] = @ + 1]
          /\ file' = [file EXCEPT ![h] = e]
          /\ before' = IF before[e] = {e} THEN [before EXCEPT ![e] = promised] ELSE before
  BY DEF StartHook
<1>k. /\ TypeOK /\ Hooks \subseteq Processes /\ Syncers \subseteq Processes
      /\ Hooks \cap Syncers = {} /\ promised \subseteq Events /\ stored \subseteq Events
      /\ \A g \in Hooks : Active(g) => file[g] \in Events
      /\ \A s \in Syncers : pc[s] = "push" => file[s] \in Events
  BY Kinds
<1>2. /\ file'[h] = e /\ pc'[h] = "open" /\ h \in Processes
      /\ \A q \in Processes \ {h} : pc'[q] = pc[q] /\ file'[q] = file[q]
  BY <1>1, <1>k, GotoReads DEF StartHook, TypeOK
<1>3. /\ \A s \in Syncers : pc'[s] = pc[s] /\ file'[s] = file[s]
      /\ \A g \in Hooks \ {h} : pc'[g] = pc[g] /\ file'[g] = file[g]
  BY <1>2, <1>k
<1>4. /\ tries' \in [Events -> Nat] /\ tries'[e] = tries[e] + 1 /\ tries[e] \in Nat
      /\ \A c \in Events \ {e} : tries'[c] = tries[c]
  BY <1>1 DEF Captured
<1>5. /\ \A c \in Events \ {e} : before'[c] = before[c]
      /\ tries[e] = 0 => before'[e] = promised
      /\ tries[e] # 0 => before'[e] = before[e]
  BY <1>1, <1>k DEF Captured, TypeOK
<1>6. tries'[e] # 0 /\ (tries[e] # 0 => tries'[e] # 1)
  BY <1>4
<1>7. /\ tries[e] = 0 => /\ e \notin promised \cup stored
                         /\ dirs[e] = {} /\ disk[e] = {}
                         /\ \A c \in Events : tries[c] # 0 => e \notin before[c]
      /\ tries[e] # 0 => e \notin before[e]
  BY DEF Captured
<1>8. ASSUME NEW d \in Events, NEW c, Precedes(d, c)', ~(c = e /\ tries[e] = 0)
      PROVE  Precedes(d, c)
  <2>1. c \in Events /\ tries'[c] # 0 /\ d \in before'[c] /\ tries'[d] = 1
    BY <1>8 DEF Precedes
  <2>2. tries[c] # 0 /\ d \in before[c]
    BY <1>4, <1>5, <1>8, <2>1
  <2>3. d # e
    BY <1>6, <1>7, <2>1, <2>2
  <2>4. QED
    BY <1>4, <2>1, <2>2, <2>3 DEF Precedes
<1>9. Clocks'
  BY <1>0 DEF Clocks
<1>10. Captured'
  <2>1. \A c \in Events :
          /\ tries'[c] = 0 => /\ before'[c] = {c} /\ c \notin promised' \cup stored'
                              /\ dirs'[c] = {} /\ disk'[c] = {}
          /\ tries'[c] # 0 => c \notin before'[c] /\ before'[c] \subseteq promised'
    BY <1>0, <1>4, <1>5, <1>6, <1>7 DEF Captured
  <2>2. \A g \in Hooks : Active(g)' => tries'[file'[g]] # 0
    BY <1>2, <1>3, <1>4, <1>6, <1>k DEF Captured, Active
  <2>3. \A s \in Syncers : /\ pc'[s] = "push" => tries'[file'[s]] # 0
                           /\ \A x \in todo'[s] : x[2] \in Events => tries'[x[2]] # 0
    BY <1>0, <1>3, <1>4, <1>6, <1>k DEF Captured
  <2>4. QED
    BY <1>4, <2>1, <2>2, <2>3 DEF Captured
<1>11. Runs'
  <2>1. ASSUME NEW g \in Hooks \ {h}, Active(g)'
        PROVE  /\ Active(g) /\ file'[g] = file[g] /\ file[g] \in Events
               /\ tries[file[g]] # 0
               /\ tries[file[g]] # 1 \/ file[g] = e => tries'[file[g]] # 1
    <3>1. Active(g) /\ file'[g] = file[g] /\ file[g] \in Events /\ tries[file[g]] # 0
      BY <1>3, <1>k, <2>1 DEF Active, Captured
    <3>2. QED
      BY <1>4, <1>6, <3>1
  <2>2. ASSUME NEW g \in Hooks, Active(g)', file'[g] \in promised PROVE tries'[file'[g]] # 1
    <3>1. CASE g = h
      BY <1>2, <1>6, <1>7, <2>2, <3>1
    <3>2. CASE g # h
      BY <2>1, <2>2, <3>2 DEF Runs
    <3>3. QED
      BY <3>1, <3>2
  <2>3. ASSUME NEW g \in Hooks, NEW k \in Hooks, Active(g)', Active(k)', g # k,
               file'[g] = file'[k]
        PROVE  tries'[file'[g]] # 1
    <3>1. CASE g = h \/ k = h
      <4>1. file'[g] = e /\ tries[e] # 0
        BY <1>2, <2>1, <2>3, <3>1
      <4>2. QED
        BY <1>6, <4>1
    <3>2. CASE g # h /\ k # h
      <4>1. tries[file[g]] # 1
        BY <2>1, <2>3, <3>2 DEF Runs
      <4>2. QED
        BY <2>1, <2>3, <3>2, <4>1
    <3>3. QED
      BY <3>1, <3>2
  <2>4. QED
    BY <1>0, <2>2, <2>3 DEF Runs
<1>12. Younger'
  <2>1. ASSUME NEW d \in Events, NEW c \in Events, Precedes(d, c)'
        PROVE  /\ "pending" \in dirs[c] \cup disk[c] => mtime[d] < mtime[c]
               /\ \A g \in Hooks : pc'[g] = "replace" /\ file'[g] = c => mtime[d] < written[g]
    <3>1. CASE c = e /\ tries[e] = 0
      <4>1. ASSUME NEW g \in Hooks, pc'[g] = "replace", file'[g] = c PROVE FALSE
        <5>1. g # h
          BY <1>2, <4>1
        <5>2. Active(g) /\ file[g] = e
          BY <1>3, <3>1, <4>1, <5>1 DEF Active
        <5>3. QED
          BY <3>1, <5>2 DEF Captured
      <4>2. QED
        BY <1>7, <3>1, <4>1
    <3>2. CASE ~(c = e /\ tries[e] = 0)
      <4>1. Precedes(d, c)
        BY <1>8, <2>1, <3>2
      <4>2. \A g \in Hooks : pc'[g] = "replace" => pc[g] = "replace" /\ file'[g] = file[g]
        BY <1>2, <1>3
      <4>3. QED
        BY <4>1, <4>2 DEF Younger
    <3>3. QED
      BY <3>1, <3>2
  <2>2. QED
    BY <1>0, <2>1 DEF Younger
<1>13. Listed'
  <2>1. ASSUME NEW s \in Syncers, NEW x \in todo[s], NEW d \in Events, Precedes(d, x[2])'
        PROVE  Precedes(d, x[2])
    <3>1. ~(x[2] = e /\ tries[e] = 0)
      BY <2>1 DEF Captured
    <3>2. QED
      BY <1>8, <2>1, <3>1
  <2>2. QED
    BY <1>0, <1>3, <2>1 DEF Listed
<1>14. Pushing'
  <2>1. ASSUME NEW s \in Syncers, NEW d \in Events, pc[s] = "push", Precedes(d, file[s])'
        PROVE  d \in stored
    <3>1. ~(file[s] = e /\ tries[e] = 0)
      BY <2>1 DEF Captured
    <3>2. Precedes(d, file[s])
      <4> DEFINE c == file[s]
      <4>1. file'[s] = file[s]
        BY <1>3
      <4>2. QED
        BY <1>8, <2>1, <3>1, <4>1
    <3>3. QED
      BY <2>1, <3>2 DEF Pushing
  <2>2. QED
    BY <1>0, <1>3, <2>1 DEF Pushing
<1>15. OrderPreserved'
  <2>1. ASSUME NEW c \in stored, NEW d \in before'[c], tries'[d] = 1 PROVE d \in stored
    <3>1. c \in Events /\ ~(c = e /\ tries[e] = 0) /\ tries[c] # 0
      BY <1>7, <1>k, <2>1 DEF Captured
    <3>2. before'[c] = before[c] /\ d \in Events
      BY <1>5, <1>k, <2>1, <3>1 DEF TypeOK
    <3>3. Precedes(d, c)'
      BY <1>4, <1>6, <2>1, <3>1 DEF Precedes
    <3>4. Precedes(d, c)
      BY <1>8, <3>1, <3>2, <3>3
    <3>5. QED
      BY <2>1, <3>2, <3>4 DEF OrderPreserved, Precedes
  <2>2. QED
    BY <1>0, <2>1 DEF OrderPreserved
<1>16. QED
  BY <1>9, <1>10, <1>11, <1>12, <1>13, <1>14, <1>15

\* The listing has the oldest files: with an event also those before it that
\* are not on the server.
LEMMA OrderList ==
    ASSUME IInv, OInv, NEW s \in Syncers, List(s)
    PROVE  OInv'
<1> USE DEF OInv
<1>0. UNCHANGED <<dirs, disk, mtime, now, file, written, stored, promised, before, tries>>
      /\ pc[s] = "list" /\ Goto(s, "next")
  BY DEF List, fs, history
<1>k. /\ TypeOK /\ Syncers \subseteq Processes /\ Hooks \subseteq Processes
      /\ Hooks \cap Syncers = {} /\ Events \subseteq Files
  BY Kinds
<1>1. PICK L \in SUBSET Pending :
          Oldest(L, Pending, MaxItems) /\ todo' = [todo EXCEPT ![s] = {<<mtime[f], f>> : f \in L}]
  BY DEF List
<1>2. /\ todo'[s] = {<<mtime[f], f>> : f \in L}
      /\ \A r \in Syncers \ {s} : todo'[r] = todo[r]
  BY <1>1, <1>k DEF TypeOK
<1>3. pc'[s] = "next" /\ \A q \in Processes \ {s} : pc'[q] = pc[q]
  BY <1>0, <1>k, GotoReads
<1>4. HooksStay /\ Delivers
  BY <1>0, <1>3, <1>k DEF HooksStay, Delivers, Active
<1>5. Captured'
  <2>1. ASSUME NEW r \in Syncers
        PROVE  /\ pc'[r] = "push" => tries[file'[r]] # 0
               /\ \A x \in todo'[r] : x[2] \in Events => tries[x[2]] # 0
    <3>1. CASE r = s
      <4>1. \A f \in L : f \in Events => tries[f] # 0
        BY DEF Captured, Pending
      <4>2. QED
        BY <1>2, <1>3, <3>1, <4>1
    <3>2. CASE r # s
      BY <1>0, <1>2, <1>3, <1>k, <3>2 DEF Captured
    <3>3. QED
      BY <3>1, <3>2
  <2>2. QED
    BY <1>0, <1>4, <2>1, CapturedKept
<1>6. Runs' /\ Clocks'
  BY <1>0, <1>4, RunsKept DEF Clocks
<1>7. Younger'
  BY <1>0, <1>3, <1>4, <1>k, YoungerKept
<1>8. OrderPreserved'
  BY <1>0, <1>4, OrderKept
<1>p. \A d, e : Precedes(d, e)' <=> Precedes(d, e)
  BY <1>0 DEF Precedes
<1>9. Listed'
  <2>1. ASSUME NEW e \in L, NEW d \in Events, Precedes(d, e), d \notin stored
        PROVE  d \in L /\ mtime[d] < mtime[e]
    <3>1. e \in Events /\ d \in promised
      BY <2>1 DEF Precedes, Captured
    <3>2. d \in Pending
      BY <2>1, <3>1 DEF IInv, PromisedNeverLost
    <3>3. "pending" \in dirs[e]
      BY DEF Pending
    <3>4. mtime[d] < mtime[e]
      BY <2>1, <3>1, <3>3 DEF Younger
    <3>5. mtime[d] \in Nat /\ mtime[e] \in Nat
      BY <1>k, <3>1 DEF TypeOK
    <3>6. d \in L
      BY <1>1, <3>2, <3>4, <3>5 DEF Oldest
    <3>7. QED
      BY <3>4, <3>6
  <2>2. ASSUME NEW x \in todo'[s], NEW d \in Events, Precedes(d, x[2]), d \notin stored
        PROVE  \E y \in todo'[s] : y[2] = d /\ y[1] < x[1]
    <3>1. PICK e \in L : x = <<mtime[e], e>>
      BY <1>2, <2>2
    <3>2. d \in L /\ mtime[d] < mtime[e]
      BY <2>1, <2>2, <3>1
    <3>3. <<mtime[d], d>> \in todo'[s]
      BY <1>2, <3>2
    <3>4. QED
      BY <3>1, <3>2, <3>3
  <2>3. ASSUME NEW r \in Syncers \ {s}, NEW x \in todo'[r], NEW d \in Events, Precedes(d, x[2])
        PROVE  \/ d \in stored' \/ (pc'[r] = "push" /\ file'[r] = d)
               \/ \E y \in todo'[r] : y[2] = d /\ y[1] < x[1]
    BY <1>0, <1>2, <1>3, <1>k, <2>3 DEF Listed
  <2>4. QED
    BY <1>0, <1>p, <2>2, <2>3 DEF Listed
<1>10. Pushing'
  BY <1>0, <1>3, <1>k, <1>p DEF Pushing
<1>11. QED
  BY <1>5, <1>6, <1>7, <1>8, <1>9, <1>10

\* The oldest file of a listing is read: what precedes it is on the server.
LEMMA OrderRead ==
    ASSUME IInv, OInv, NEW s \in Syncers, Read(s)
    PROVE  OInv'
<1> USE DEF OInv
<1>0. UNCHANGED <<dirs, disk, mtime, now, written, stored, promised, before, tries>>
      /\ pc[s] = "next"
  BY DEF Read, fs, history
<1>k. /\ TypeOK /\ Syncers \subseteq Processes /\ Hooks \subseteq Processes
      /\ Hooks \cap Syncers = {} /\ s \in Processes /\ s \notin Hooks
  BY Kinds
<1>1. PICK x \in todo[s] :
          /\ \A y \in todo[s] : x[1] <= y[1]
          /\ file' = [file EXCEPT ![s] = x[2]]
          /\ IF x[2] \in Pending \ Undecodable
             THEN /\ todo' = [todo EXCEPT ![s] = @ \ {x}]
                  /\ Goto(s, IF x[2] \in Malformed THEN "quarantine" ELSE "push")
             ELSE Abort(s)
  BY DEF Read
<1>2. \A y \in todo[s] : y[1] \in Nat /\ y[2] \in Files
  BY <1>k DEF TypeOK
<1>3. file'[s] = x[2] /\ \A q \in Processes \ {s} : file'[q] = file[q]
  BY <1>1, <1>2, <1>k DEF TypeOK
<1>4. CASE x[2] \notin Pending \ Undecodable
  <2>1. Abort(s)
    BY <1>1, <1>4
  <2>2. HooksStay /\ SyncersStay
    BY <1>3, <1>k, <2>1, AbortReads, OneMoves
  <2>3. \A h \in Hooks : pc'[h] = pc[h]
    BY <1>k, <2>1, AbortReads
  <2>4. QED
    BY <1>0, <2>2, <2>3, OrderAlone DEF Delivers
<1>5. CASE x[2] \in Pending \ Undecodable
  <2>1. /\ pc'[s] = IF x[2] \in Malformed THEN "quarantine" ELSE "push"
        /\ \A q \in Processes \ {s} : pc'[q] = pc[q]
    BY <1>1, <1>5, <1>k, GotoReads
  <2>2. todo'[s] = todo[s] \ {x} /\ \A r \in Syncers \ {s} : todo'[r] = todo[r]
    BY <1>1, <1>5, <1>k DEF TypeOK
  <2>3. x[2] \in Malformed \/ x[2] \in Events
    BY <1>2, <1>5 DEF Files
  <2>4. HooksStay /\ Delivers
    BY <1>0, <1>3, <2>1, <1>k DEF HooksStay, Delivers, Active
  <2>5. Captured'
    <3>1. ASSUME NEW r \in Syncers
          PROVE  /\ pc'[r] = "push" => tries[file'[r]] # 0
                 /\ \A y \in todo'[r] : y[2] \in Events => tries[y[2]] # 0
      <4>1. CASE r = s
        BY <1>3, <2>1, <2>2, <2>3, <4>1 DEF Captured
      <4>2. CASE r # s
        BY <1>3, <1>k, <2>1, <2>2, <4>2 DEF Captured
      <4>3. QED
        BY <4>1, <4>2
    <3>2. QED
      BY <1>0, <2>4, <3>1, CapturedKept
  <2>6. Runs' /\ Clocks' /\ OrderPreserved'
    BY <1>0, <2>4, RunsKept, OrderKept DEF Clocks
  <2>7. Younger'
    BY <1>0, <1>k, <2>1, <2>4, YoungerKept
  <2>p. \A d, e : Precedes(d, e)' <=> Precedes(d, e)
    BY <1>0 DEF Precedes
  <2>8. Listed'
    <3>1. ASSUME NEW z \in todo'[s], NEW d \in Events, Precedes(d, z[2])
          PROVE  \/ d \in stored \/ (pc'[s] = "push" /\ file'[s] = d)
                 \/ \E y \in todo'[s] : y[2] = d /\ y[1] < z[1]
      <4>1. CASE d \in stored
        BY <4>1
      <4>2. CASE \E y \in todo[s] : y[2] = d /\ y[1] < z[1]
        <5>1. PICK y \in todo[s] : y[2] = d /\ y[1] < z[1]
          BY <4>2
        <5>2. CASE y = x
          BY <1>3, <2>1, <5>1, <5>2, SpoolAssumption
        <5>3. CASE y # x
          BY <2>2, <5>1, <5>3
        <5>4. QED
          BY <5>2, <5>3
      <4>3. QED
        BY <1>0, <2>2, <3>1, <4>1, <4>2 DEF Listed
    <3>2. ASSUME NEW r \in Syncers \ {s}, NEW z \in todo'[r], NEW d \in Events, Precedes(d, z[2])
          PROVE  \/ d \in stored \/ (pc'[r] = "push" /\ file'[r] = d)
                 \/ \E y \in todo'[r] : y[2] = d /\ y[1] < z[1]
      BY <1>3, <1>k, <2>1, <2>2, <3>2 DEF Listed
    <3>3. QED
      BY <1>0, <2>p, <3>1, <3>2 DEF Listed
  <2>9. Pushing'
    <3>1. ASSUME NEW d \in Events, Precedes(d, x[2]) PROVE d \in stored
      <4>1. ASSUME NEW y \in todo[s], y[1] < x[1] PROVE FALSE
        BY <1>1, <1>2, <4>1
      <4>2. QED
        BY <1>0, <3>1, <4>1 DEF Listed
    <3>2. QED
      BY <1>0, <1>3, <1>k, <2>1, <2>p, <3>1 DEF Pushing
  <2>10. QED
    BY <2>5, <2>6, <2>7, <2>8, <2>9
<1>6. QED
  BY <1>4, <1>5

\* A file is written, named or made durable: later than all that was promised.
LEMMA OrderPut ==
    ASSUME IInv, OInv, NEW h \in Hooks, PutWrite(h) \/ PutReplace(h) \/ PutFsync(h)
    PROVE  OInv'
<1> USE DEF OInv
<1>0. UNCHANGED <<file, todo, stored, before, tries>> /\ Active(h)
  BY DEF PutWrite, PutReplace, PutFsync, history, Active
<1>k. /\ TypeOK /\ Syncers \subseteq Processes /\ Hooks \subseteq Processes /\ h \in Processes
      /\ Hooks \cap Syncers = {} /\ Events \subseteq Files /\ file[h] \in Events
      /\ tries[file[h]] # 0 /\ h \notin Syncers
  BY <1>0, Kinds DEF Captured
<1>p. \A d, e : Precedes(d, e)' <=> Precedes(d, e)
  BY <1>0 DEF Precedes
<1>g. \E l \in {"replace", "fsync", "ended"} : Goto(h, l)
  BY DEF PutWrite, PutReplace, PutFsync
<1>r. \A q \in Processes \ {h} : pc'[q] = pc[q]
  BY <1>g, <1>k, GotoReads
<1>1. HooksStay /\ SyncersStay /\ Delivers
  BY <1>0, <1>k, <1>r, OneMoves DEF Delivers
<1>2. Listed' /\ Pushing' /\ OrderPreserved'
  BY <1>0, <1>1, SyncersKept, OrderKept
<1>s. ASSUME NEW r \in Syncers
      PROVE  /\ pc'[r] = "push" => tries[file'[r]] # 0
             /\ \A y \in todo'[r] : y[2] \in Events => tries[y[2]] # 0
  BY <1>0, <1>k, <1>r DEF Captured
<1>3. CASE PutWrite(h)
  <2>1. UNCHANGED <<dirs, disk, mtime, promised>> /\ now' = now + 1 /\ now \in Nat
        /\ mtime \in [Files -> Nat]
    BY <1>3, <1>k DEF PutWrite, fs, history, TypeOK
  <2>2. written'[h] = now + 1 /\ \A g \in Hooks \ {h} : written'[g] = written[g]
        /\ written[g] \in Nat
    BY <1>3, <1>k DEF PutWrite, TypeOK
  <2>3. Clocks'
    <3>1. \A f \in Files : mtime[f] \in Nat /\ mtime[f] <= now
      BY <2>1 DEF Clocks
    <3>2. \A g \in Hooks : written'[g] <= now + 1
      BY <2>1, <2>2 DEF Clocks
    <3>3. QED
      BY <2>1, <3>1, <3>2 DEF Clocks
  <2>4. Captured' /\ Runs'
    BY <1>0, <1>1, <1>s, <2>1, CapturedKept, RunsKept
  <2>5. Younger'
    <3>1. ASSUME NEW d \in Events, NEW e \in Events, Precedes(d, e), NEW g \in Hooks,
                 pc'[g] = "replace", file'[g] = e
          PROVE  mtime[d] < written'[g]
      <4>1. CASE g = h
        <5>1. mtime[d] \in Nat /\ mtime[d] <= now
          BY <1>k, <2>1 DEF Clocks
        <5>2. QED
          BY <2>1, <2>2, <4>1, <5>1
      <4>2. CASE g # h
        <5>1. pc[g] = "replace" /\ file[g] = e /\ written'[g] = written[g]
          BY <1>0, <1>k, <1>r, <2>2, <3>1, <4>2
        <5>2. QED
          BY <3>1, <5>1 DEF Younger
      <4>3. QED
        BY <4>1, <4>2
    <3>2. QED
      BY <1>p, <2>1, <3>1 DEF Younger
  <2>6. QED
    BY <1>2, <2>3, <2>4, <2>5
<1>4. CASE PutReplace(h)
  <2>1. /\ UNCHANGED <<disk, now, written, promised>> /\ pc[h] = "replace"
        /\ dirs'[file[h]] = dirs[file[h]] \cup {"pending"} /\ mtime'[file[h]] = written[h]
        /\ \A f \in Files \ {file[h]} : dirs'[f] = dirs[f] /\ mtime'[f] = mtime[f]
    BY <1>4, <1>k DEF PutReplace, history, TypeOK
  <2>2. pc'[h] = "fsync"
    BY <1>4, <1>k, GotoReads DEF PutReplace
  <2>3. Clocks'
    BY <2>1 DEF Clocks
  <2>4. Captured' /\ Runs'
    BY <1>0, <1>1, <1>k, <1>s, <2>1, CapturedKept, RunsKept
  <2>5. ASSUME NEW d \in Events, NEW e \in Events, Precedes(d, e)
        PROVE  /\ d # file[h]
               /\ "pending" \in dirs'[e] \cup disk'[e] => mtime'[d] < mtime'[e]
               /\ \A g \in Hooks : pc'[g] = "replace" /\ file'[g] = e => mtime'[d] < written'[g]
    <3>1. d # file[h]
      BY <1>0, <2>5 DEF Precedes, Captured, Runs
    <3>2. mtime'[d] = mtime[d]
      BY <1>k, <2>1, <3>1
    <3>3. "pending" \in dirs'[e] \cup disk'[e] => mtime[d] < mtime'[e]
      <4>1. CASE e = file[h]
        BY <2>1, <2>5, <4>1 DEF Younger
      <4>2. CASE e # file[h]
        BY <1>k, <2>1, <2>5, <4>2 DEF Younger
      <4>3. QED
        BY <4>1, <4>2
    <3>4. \A g \in Hooks : pc'[g] = "replace" => pc[g] = "replace"
      BY <1>k, <1>r, <2>2
    <3>5. QED
      BY <1>0, <2>1, <2>5, <3>1, <3>2, <3>3, <3>4 DEF Younger
  <2>6. Younger'
    BY <1>p, <2>5 DEF Younger
  <2>7. QED
    BY <1>2, <2>3, <2>4, <2>6
<1>5. CASE PutFsync(h)
  <2>1. /\ UNCHANGED <<dirs, mtime, now, written>> /\ Fsync({"pending"})
        /\ promised' = promised \cup {file[h]} /\ Goto(h, "ended")
    BY <1>5 DEF PutFsync
  <2>2. \A f \in Files : disk'[f] \in {dirs[f], disk[f]}
    BY <2>1 DEF Fsync
  <2>3. pc'[h] = "ended"
    BY <1>k, <2>1, GotoReads
  <2>4. Clocks'
    BY <2>1 DEF Clocks
  <2>5. Captured'
    BY <1>0, <1>1, <1>k, <1>s, <2>1, <2>2, CapturedKept
  <2>6. Younger'
    BY <1>0, <1>1, <1>k, <1>r, <2>1, <2>2, <2>3, YoungerKept
  <2>7. Runs'
    <3>1. ASSUME NEW g \in Hooks, Active(g)', file'[g] \in promised'
          PROVE  tries'[file'[g]] # 1
      <4>1. Active(g) /\ file'[g] = file[g] /\ g # h
        BY <1>1, <2>3, <3>1 DEF HooksStay, Active
      <4>2. QED
        BY <1>0, <2>1, <3>1, <4>1 DEF Runs
    <3>2. ASSUME NEW g \in Hooks, NEW j \in Hooks, Active(g)', Active(j)', g # j,
                 file'[g] = file'[j]
          PROVE  tries'[file'[g]] # 1
      BY <1>0, <1>1, <3>2 DEF Runs, HooksStay
    <3>3. QED
      BY <3>1, <3>2 DEF Runs
  <2>8. QED
    BY <1>2, <2>4, <2>5, <2>6, <2>7
<1>6. QED
  BY <1>3, <1>4, <1>5

\* Steps that move files or end work.
LEMMA OrderRest ==
    ASSUME IInv, OInv, NEW p \in Processes,
           \/ OpenStep(p) \/ Kill(p)
           \/ p \in Hooks /\ (PutExists(p) \/ PutAbsent(p))
           \/ p \in Syncers /\ (StartPass(p) \/ EndPass(p) \/ PushOk(p) \/ PushFails(p)
                                \/ Quarantine(p) \/ QuarantineFsync(p)
                                \/ MarkSent(p) \/ MarkSentFsync(p) \/ PruneSent(p))
    PROVE  OInv'
<1>k. /\ TypeOK /\ Syncers \subseteq Processes /\ Hooks \subseteq Processes
      /\ Hooks \cap Syncers = {} /\ Events \subseteq Files
  BY Kinds
<1> USE DEF fs, history
<1>1. UNCHANGED <<before, tries, promised, mtime, written, now, file>>
  BY DEF OpenStep, Open, SeeChild, ChmodChild, Kill, PutExists, PutAbsent, StartPass, EndPass,
     PushOk, PushFails, Quarantine, QuarantineFsync, MarkSent, MarkSentFsync, PruneSent
<1>2. CASE OpenStep(p)
  <2>1. /\ UNCHANGED <<dirs, disk, stored>> /\ pc[p] \in {"open", "chmod"}
        /\ \/ Abort(p)
           \/ UNCHANGED todo /\ \E l \in {"put", "list", "chmod"} : Goto(p, l)
    BY <1>2 DEF OpenStep, Open, SeeChild, ChmodChild, Opened
  <2>2. \/ pc'[p] \in {"idle", "ended"}
           /\ \A s \in Syncers : todo'[s] = IF s = p THEN {} ELSE todo[s]
        \/ UNCHANGED todo /\ pc'[p] \in {"put", "list", "chmod"}
    BY <1>k, <2>1, AbortReads, GotoReads
  <2>3. \A q \in Processes \ {p} : pc'[q] = pc[q]
    BY <1>k, <2>1, AbortReads, GotoReads
  <2>4. HooksStay /\ SyncersStay
    BY <1>1, <1>k, <2>1, <2>2, <2>3, OneMoves DEF Active
  <2>5. \A h \in Hooks : pc'[h] = "replace" => pc[h] = "replace"
    BY <1>k, <2>2, <2>3
  <2>6. QED
    BY <1>1, <2>1, <2>4, <2>5, OrderAlone DEF Delivers
<1>3. CASE Kill(p)
  <2>1. /\ pc'[p] = "idle" /\ \A q \in Processes \ {p} : pc'[q] = pc[q]
        /\ \A s \in Syncers : todo'[s] = IF s = p THEN {} ELSE todo[s]
        /\ UNCHANGED <<dirs, disk, stored>>
    BY <1>3, <1>k DEF Kill, TypeOK
  <2>2. HooksStay /\ SyncersStay
    BY <1>1, <1>k, <2>1, OneMoves
  <2>3. \A h \in Hooks : pc'[h] = "replace" => pc[h] = "replace"
    BY <1>k, <2>1
  <2>4. QED
    BY <1>1, <2>1, <2>2, <2>3, OrderAlone DEF Delivers
<1>4. CASE p \in Hooks /\ (PutExists(p) \/ PutAbsent(p))
  <2>1. /\ pc[p] = "put" /\ UNCHANGED <<dirs, disk, stored, todo>>
        /\ \E l \in {"ended", "write"} : Goto(p, l)
    BY <1>4 DEF PutExists, PutAbsent
  <2>2. pc'[p] \in {"ended", "write"} /\ \A q \in Processes \ {p} : pc'[q] = pc[q]
    BY <1>k, <2>1, GotoReads
  <2>3. HooksStay /\ SyncersStay
    BY <1>1, <1>4, <1>k, <2>1, <2>2, OneMoves DEF Active
  <2>4. \A h \in Hooks : pc'[h] = "replace" => pc[h] = "replace"
    BY <1>k, <2>2
  <2>5. QED
    BY <1>1, <2>1, <2>3, <2>4, OrderAlone DEF Delivers
<1>5. CASE p \in Syncers /\ ~OpenStep(p) /\ ~Kill(p)
  <2>1. \/ Abort(p)
        \/ UNCHANGED todo /\ \E l \in {"open", "idle", "mark", "qfsync", "next", "sfsync", "prune"} :
                                 Goto(p, l)
    BY <1>5, <1>k DEF StartPass, EndPass, PushOk, PushFails, Quarantine, QuarantineFsync,
       MarkSent, MarkSentFsync, PruneSent, Continue
  <2>2. /\ \A q \in Processes \ {p} : pc'[q] = pc[q]
        /\ \/ /\ pc'[p] \in {"idle", "ended"}
              /\ \A s \in Syncers : todo'[s] = IF s = p THEN {} ELSE todo[s]
           \/ /\ UNCHANGED todo
              /\ pc'[p] \in {"open", "idle", "mark", "qfsync", "next", "sfsync", "prune"}
    BY <1>k, <2>1, AbortReads, GotoReads
  <2>3. /\ \/ UNCHANGED stored
           \/ pc[p] = "push" /\ stored' \in {stored, stored \cup {file[p]}}
        /\ pc[p] = "push" => Abort(p) \/ file[p] \in stored'
    BY <1>5, <1>k DEF StartPass, EndPass, PushOk, PushFails, Quarantine, QuarantineFsync,
       MarkSent, MarkSentFsync, PruneSent
  <2>4. Delivers
    BY <1>5, <2>3 DEF Delivers
  <2>5. pc[p] = "push" => todo'[p] = {} \/ file[p] \in stored'
    BY <1>5, <1>k, <2>3, AbortReads
  <2>6. HooksStay /\ SyncersStay
    BY <1>1, <1>5, <1>k, <2>2, <2>5, OneMoves
  <2>7. \A h \in Hooks : pc'[h] = pc[h]
    BY <1>5, <1>k, <2>2
  <2>8. ASSUME NEW f \in Events
        PROVE  /\ dirs[f] \cup disk[f] = {} => dirs'[f] \cup disk'[f] = {}
               /\ "pending" \in dirs'[f] \cup disk'[f] => "pending" \in dirs[f] \cup disk[f]
    <3>1. CASE QuarantineFsync(p) \/ MarkSentFsync(p)
      <4>1. dirs' = dirs /\ disk'[f] \in {dirs[f], disk[f]}
        BY <1>k, <3>1 DEF QuarantineFsync, MarkSentFsync, Fsync
      <4>2. QED
        BY <4>1
    <3>2. CASE Quarantine(p) \/ MarkSent(p)
      <4>1. /\ disk' = disk /\ dirs'[f] \subseteq dirs[f] \cup {"sent", "failed"}
            /\ dirs'[f] # dirs[f] => "pending" \in dirs[f]
        BY <1>k, <3>2 DEF Quarantine, MarkSent, Pending, TypeOK
      <4>2. QED
        BY <4>1
    <3>3. CASE PruneSent(p)
      <4>1. disk' = disk /\ dirs'[f] \subseteq dirs[f]
        BY <1>k, <3>3 DEF PruneSent
      <4>2. QED
        BY <4>1
    <3>4. CASE UNCHANGED <<dirs, disk>>
      BY <3>4
    <3>5. QED
      BY <1>5, <1>k, <3>1, <3>2, <3>3, <3>4 DEF StartPass, EndPass, PushOk, PushFails
  <2>9. QED
    BY <1>1, <2>4, <2>6, <2>7, <2>8, OrderAlone
<1>6. QED
  BY <1>2, <1>3, <1>4, <1>5

LEMMA OrderStep == IInv /\ OInv /\ [Next]_vars => OInv'
<1> SUFFICES ASSUME IInv, OInv, [Next]_vars PROVE OInv'
  OBVIOUS
<1>k. Hooks \subseteq Processes /\ Syncers \subseteq Processes
  BY Kinds
<1>1. CASE PowerLoss
  <2>1. UNCHANGED <<before, tries, promised, mtime, written, now, stored>>
    BY <1>1 DEF PowerLoss, history
  <2>2. /\ \A q \in Processes : pc'[q] = "idle"
        /\ \A s \in Syncers : todo'[s] = {}
    BY <1>1 DEF PowerLoss
  <2>3. \A f \in Files : dirs'[f] \in {dirs[f], disk[f]} /\ disk'[f] = dirs'[f]
    BY <1>1 DEF PowerLoss
  <2>4. HooksStay /\ SyncersStay /\ Delivers
    BY <1>k, <2>1, <2>2 DEF HooksStay, SyncersStay, Delivers, Active
  <2>5. ASSUME NEW f \in Events
        PROVE  /\ dirs[f] \cup disk[f] = {} => dirs'[f] \cup disk'[f] = {}
               /\ "pending" \in dirs'[f] \cup disk'[f] => "pending" \in dirs[f] \cup disk[f]
    BY <2>3, Kinds
  <2>6. QED
    BY <1>k, <2>1, <2>2, <2>4, <2>5, OrderAlone
<1>2. CASE UNCHANGED vars
  BY <1>2, OrderAlone DEF vars, HooksStay, SyncersStay, Delivers, Active
<1>3. ASSUME NEW h \in Hooks, StartHook(h) \/ HookStep(h) PROVE OInv'
  BY <1>3, <1>k, OrderStart, OrderPut, OrderRest DEF HookStep
<1>4. ASSUME NEW s \in Syncers, StartPass(s) \/ SyncStep(s) PROVE OInv'
  BY <1>4, <1>k, OrderList, OrderRead, OrderRest DEF SyncStep
<1>5. ASSUME NEW p \in Processes, OpenStep(p) \/ Kill(p) PROVE OInv'
  BY <1>5, OrderRest
<1>6. QED
  BY <1>1, <1>2, <1>3, <1>4, <1>5 DEF Next

\* An event reaches the server after all that was promised before its capture
\* began and was captured once, whichever hooks and syncers run beside each
\* other, are killed or lose power (spool.py:188-212 sync_once).
THEOREM OrderIsPreserved == Spec => []OrderPreserved
<1>1. Init => OInv
  BY SpoolAssumption DEF Init, OInv, Clocks, Captured, Runs, Younger, Listed, Pushing,
     OrderPreserved, Precedes, Active, Files, Processes
<1>2. OInv => OrderPreserved
  BY DEF OInv
<1>3. QED
  BY <1>1, <1>2, OrderStep, SpoolInductive, PTL DEF Spec
-----------------------------------------------------------------------------
(* The outbox *)

\* What a syncer is about to push is in pending, or was delivered by another.
PushesHeld == \A s \in Syncers : pc[s] = "push" => file[s] \in Pending \cup stored

Held == Pending \cap Events
Safe == {e \in Events : "pending" \in disk[e]}

\* A step that leaves the box alone.
LEMMA BoxStutters ==
    ASSUME UNCHANGED <<stored, promised>>,
           \A e \in Events : /\ "pending" \in dirs'[e] <=> "pending" \in dirs[e]
                             /\ "pending" \in disk'[e] <=> "pending" \in disk[e]
    PROVE  UNCHANGED Box!boxVars
<1>1. Held' = Held /\ Safe' = Safe
  BY SpoolAssumption DEF Held, Safe, Pending, Files
<1>2. QED
  BY <1>1 DEF Box!boxVars, Held, Safe

\* An fsync of pending flushes the box, whatever else it covers.
LEMMA BoxFlushes ==
    ASSUME IInv, NEW D, "pending" \in D, Fsync(D), UNCHANGED <<dirs, stored>>,
           NEW M \in SUBSET Events, M \subseteq Pending \cup stored, promised' = promised \cup M
    PROVE  Box!OutboxNext
<1>1. \A e \in Events : "pending" \in disk'[e] <=> "pending" \in dirs[e]
  BY SpoolAssumption DEF Fsync, Files
<1>2. Safe' = Held /\ Held' = Held
  BY <1>1, SpoolAssumption DEF Safe, Held, Pending, Files
<1>3. M \subseteq Held \cup stored
  BY DEF Held
<1>4. Box!Flush(M)
  BY <1>2, <1>3 DEF Box!Flush, Held, Safe
<1>5. QED
  BY <1>4 DEF Box!OutboxNext

LEMMA BoxStep ==
    ASSUME IInv, PushesHeld, [Next]_vars
    PROVE  [Box!OutboxNext]_(Box!boxVars)
<1>a. /\ TypeOK /\ HookWork /\ SyncWork /\ Events \cap Malformed = {}
      /\ Events \subseteq Files /\ stored \subseteq Events
  BY Kinds, SpoolAssumption DEF IInv
<1>1. CASE UNCHANGED <<dirs, disk, stored, promised>>
  BY <1>1, BoxStutters
<1>2. ASSUME NEW h \in Hooks, PutReplace(h) PROVE Box!OutboxNext
  <2>1. /\ file[h] \in Events /\ UNCHANGED <<disk, stored, promised>>
        /\ dirs' = [dirs EXCEPT ![file[h]] = dirs[file[h]] \cup {"pending"}]
    BY <1>2, <1>a DEF PutReplace, HookWork, history
  <2>2. \A f \in Files : "pending" \in dirs'[f] <=> "pending" \in dirs[f] \/ f = file[h]
    BY <1>a, <2>1 DEF TypeOK
  <2>3. Held' = Held \cup {file[h]} /\ Safe' = Safe
    BY <1>a, <2>1, <2>2 DEF Held, Safe, Pending
  <2>4. Box!Capture(file[h])
    BY <2>1, <2>3 DEF Box!Capture, Held, Safe
  <2>5. QED
    BY <2>1, <2>4 DEF Box!OutboxNext
<1>3. ASSUME NEW h \in Hooks, PutFsync(h) PROVE Box!OutboxNext
  <2>1. {file[h]} \in SUBSET Events /\ {file[h]} \subseteq Pending \cup stored
    BY <1>3, <1>a DEF PutFsync, HookWork
  <2>2. QED
    BY <1>3, <2>1, BoxFlushes DEF PutFsync
<1>4. ASSUME NEW s \in Syncers, QuarantineFsync(s) \/ MarkSentFsync(s) PROVE Box!OutboxNext
  <2>1. \E D : "pending" \in D /\ Fsync(D)
    BY <1>4 DEF QuarantineFsync, MarkSentFsync
  <2>2. UNCHANGED <<dirs, stored>> /\ promised' = promised \cup {}
    BY <1>4 DEF QuarantineFsync, MarkSentFsync, history
  <2>3. {} \in SUBSET Events /\ {} \subseteq Pending \cup stored
    OBVIOUS
  <2>4. QED
    BY <2>1, <2>2, <2>3, BoxFlushes
<1>5. ASSUME NEW s \in Syncers, PushOk(s) \/ PushFails(s), stored' # stored PROVE Box!OutboxNext
  <2>1. /\ UNCHANGED <<dirs, disk, promised>> /\ stored' = stored \cup {file[s]}
        /\ pc[s] = "push" /\ file[s] \notin stored
    BY <1>5 DEF PushOk, PushFails, fs, history
  <2>2. file[s] \in Events /\ file[s] \in Held
    BY <1>a, <2>1 DEF SyncWork, PushesHeld, Held
  <2>3. Held' = Held /\ Safe' = Safe
    BY <2>1 DEF Held, Safe, Pending
  <2>4. Box!Deliver(file[s])
    BY <2>1, <2>2, <2>3 DEF Box!Deliver, Held, Safe
  <2>5. QED
    BY <2>2, <2>4 DEF Box!OutboxNext
<1>6. ASSUME NEW s \in Syncers, Quarantine(s) \/ PruneSent(s) PROVE UNCHANGED Box!boxVars
  <2>1. UNCHANGED <<disk, stored, promised>>
    BY <1>6 DEF Quarantine, PruneSent, history
  <2>2. \A e \in Events : "pending" \in dirs'[e] <=> "pending" \in dirs[e]
    <3>1. CASE Quarantine(s)
      BY <1>a, <3>1 DEF Quarantine, SyncWork, TypeOK
    <3>2. CASE PruneSent(s)
      BY <1>a, <3>2 DEF PruneSent
    <3>3. QED
      BY <1>6, <3>1, <3>2
  <2>3. QED
    BY <2>1, <2>2, BoxStutters
<1>7. ASSUME NEW s \in Syncers, MarkSent(s), dirs' # dirs PROVE Box!OutboxNext
  <2>1. /\ file[s] \in stored /\ UNCHANGED <<disk, stored, promised>>
        /\ dirs' = [dirs EXCEPT ![file[s]] = (dirs[file[s]] \ {"pending"}) \cup {"sent"}]
    BY <1>7, <1>a DEF MarkSent, SyncWork, history
  <2>2. \A f \in Files : "pending" \in dirs'[f] <=> "pending" \in dirs[f] /\ f # file[s]
    BY <1>a, <2>1 DEF TypeOK
  <2>3. Held' = Held \ {file[s]} /\ Safe' = Safe
    BY <1>a, <2>1, <2>2 DEF Held, Safe, Pending
  <2>4. Box!Clear(file[s])
    BY <2>1, <2>3 DEF Box!Clear, Held, Safe
  <2>5. QED
    BY <1>a, <2>1, <2>4 DEF Box!OutboxNext
<1>8. ASSUME PowerLoss PROVE Box!OutboxNext
  <2>1. UNCHANGED <<stored, promised>> /\ disk' = dirs'
        /\ \A f \in Files : dirs'[f] \in {dirs[f], disk[f]}
    BY <1>8 DEF PowerLoss, history
  <2>2. Held \cap Safe \subseteq Held' /\ Held' \subseteq Held \cup Safe /\ Safe' = Held'
    BY <1>a, <2>1 DEF Held, Safe, Pending
  <2>3. Box!Crash
    BY <2>1, <2>2 DEF Box!Crash, Held, Safe
  <2>4. QED
    BY <2>3 DEF Box!OutboxNext
<1>9. \/ UNCHANGED <<dirs, disk, stored, promised>> \/ PowerLoss
      \/ \E h \in Hooks : PutReplace(h) \/ PutFsync(h)
      \/ \E s \in Syncers : \/ QuarantineFsync(s) \/ MarkSentFsync(s) \/ Quarantine(s) \/ PruneSent(s)
                            \/ (PushOk(s) \/ PushFails(s)) /\ stored' # stored
                            \/ MarkSent(s) /\ dirs' # dirs
  BY DEF Next, HookStep, SyncStep, OpenStep, vars, fs, history, StartHook, StartPass, Open, SeeChild,
     ChmodChild, PutExists, PutAbsent, PutWrite, List, EndPass, Read, PushOk, PushFails, MarkSent, Kill
<1>10. QED
  BY <1>1, <1>2, <1>3, <1>4, <1>5, <1>6, <1>7, <1>8, <1>9

\* An event that is in pending or on the server stays in one of them until a power loss.
LEMMA EventsStay ==
    ASSUME IInv, [Next]_vars, ~PowerLoss, NEW e \in Events, e \in Pending \cup stored
    PROVE  e \in Pending' \cup stored'
<1>a. /\ TypeOK /\ HookWork /\ SyncWork /\ Events \cap Malformed = {} /\ e \in Files
  BY Kinds, SpoolAssumption DEF IInv
<1>1. CASE UNCHANGED dirs /\ stored \subseteq stored'
  BY <1>1 DEF Pending
<1>2. ASSUME NEW h \in Hooks, PutReplace(h) PROVE e \in Pending' \cup stored'
  BY <1>a, <1>2 DEF PutReplace, TypeOK, Pending
<1>3. ASSUME NEW s \in Syncers, Quarantine(s) \/ MarkSent(s) PROVE e \in Pending' \cup stored'
  <2>1. stored' = stored /\ (dirs'[e] = dirs[e] \/ e \in stored)
    BY <1>a, <1>3 DEF Quarantine, MarkSent, SyncWork, TypeOK
  <2>2. QED
    BY <1>a, <2>1 DEF Pending
<1>4. ASSUME NEW s \in Syncers, PruneSent(s) PROVE e \in Pending' \cup stored'
  BY <1>a, <1>4 DEF PruneSent, Pending
<1>5. \/ UNCHANGED dirs /\ stored \subseteq stored'
      \/ \E h \in Hooks : PutReplace(h)
      \/ \E s \in Syncers : Quarantine(s) \/ MarkSent(s) \/ PruneSent(s)
  BY DEF Next, HookStep, SyncStep, OpenStep, vars, fs, history, StartHook, StartPass, Open, SeeChild,
     ChmodChild, PutExists, PutAbsent, PutWrite, PutFsync, List, EndPass, Read, PushOk, PushFails,
     QuarantineFsync, MarkSentFsync, Kill
<1>6. QED
  BY <1>1, <1>2, <1>3, <1>4, <1>5

\* A syncer begins to push what it has just read from pending.
LEMMA PushBegins ==
    ASSUME IInv, [Next]_vars, NEW s \in Syncers, pc'[s] = "push"
    PROVE  ~PowerLoss /\ ((pc[s] = "push" /\ file'[s] = file[s]) \/ file'[s] \in Pending')
<1>a. /\ TypeOK /\ Hooks \subseteq Processes /\ Syncers \subseteq Processes /\ Hooks \cap Syncers = {}
  BY Kinds
<1>1. ~PowerLoss
  BY <1>a DEF PowerLoss
<1>2. CASE UNCHANGED vars
  BY <1>1, <1>2 DEF vars
<1>3. ASSUME NEW p \in Processes, p # s, \E l : Goto(p, l), \A q \in Processes \ {p} : file'[q] = file[q]
      PROVE  pc[s] = "push" /\ file'[s] = file[s]
  BY <1>a, <1>3 DEF Goto, TypeOK
<1>4. ASSUME NEW h \in Hooks, StartHook(h) \/ HookStep(h) PROVE pc[s] = "push" /\ file'[s] = file[s]
  <2>1. \E l : Goto(h, l)
    BY <1>4 DEF StartHook, HookStep, PutExists, PutAbsent, PutWrite, PutReplace, PutFsync
  <2>2. \A q \in Processes \ {h} : file'[q] = file[q]
    BY <1>4, <1>a DEF StartHook, HookStep, PutExists, PutAbsent, PutWrite, PutReplace, PutFsync, TypeOK
  <2>3. QED
    BY <1>3, <1>a, <2>1, <2>2
<1>5. ASSUME NEW p \in Processes, OpenStep(p) \/ Kill(p) PROVE pc[s] = "push" /\ file'[s] = file[s]
  <2>1. file' = file
    BY <1>5 DEF OpenStep, Open, ChmodChild, SeeChild, Kill
  <2>2. PICK l : l # "push" /\ pc' = [pc EXCEPT ![p] = l]
    BY <1>5 DEF OpenStep, Open, ChmodChild, SeeChild, Kill, Goto, Opened, Abort
  <2>3. QED
    BY <1>a, <2>1, <2>2 DEF TypeOK
<1>6. ASSUME NEW r \in Syncers, StartPass(r) \/ SyncStep(r)
      PROVE  (pc[s] = "push" /\ file'[s] = file[s]) \/ file'[s] \in Pending'
  <2>1. CASE Read(r)
    <3>1. PICK x \in todo[r] :
              /\ file' = [file EXCEPT ![r] = x[2]]
              /\ IF x[2] \in Pending \ Undecodable
                 THEN /\ todo' = [todo EXCEPT ![r] = @ \ {x}]
                      /\ Goto(r, IF x[2] \in Malformed THEN "quarantine" ELSE "push")
                 ELSE Abort(r)
      BY <2>1 DEF Read
    <3>2. Pending' = Pending
      BY <2>1 DEF Read, fs, Pending
    <3>3. PICK l : pc' = [pc EXCEPT ![r] = l]
      BY <3>1 DEF Goto, Abort
    <3>4. CASE s = r
      <4>1. x[2] \in Pending
        BY <1>a, <3>1, <3>4 DEF Abort, Goto, TypeOK
      <4>2. QED
        BY <1>a, <3>1, <3>2, <3>4, <4>1 DEF TypeOK
    <3>5. CASE s # r
      BY <1>a, <3>1, <3>3, <3>5 DEF TypeOK
    <3>6. QED
      BY <3>4, <3>5
  <2>2. CASE ~Read(r)
    <3>1. file' = file
      BY <1>6, <2>2 DEF StartPass, SyncStep, List, EndPass, Quarantine, QuarantineFsync, PushOk,
         PushFails, MarkSent, MarkSentFsync, PruneSent
    <3>2. PICK l : l # "push" /\ pc' = [pc EXCEPT ![r] = l]
      BY <1>6, <1>a, <2>2 DEF StartPass, SyncStep, List, EndPass, Quarantine, QuarantineFsync, PushOk,
         PushFails, MarkSent, MarkSentFsync, PruneSent, Goto, Abort, Continue
    <3>3. QED
      BY <1>a, <3>1, <3>2 DEF TypeOK
  <2>3. QED
    BY <2>1, <2>2
<1>7. QED
  BY <1>1, <1>2, <1>4, <1>5, <1>6 DEF Next

LEMMA PushesStep == IInv /\ PushesHeld /\ [Next]_vars => PushesHeld'
<1> SUFFICES ASSUME IInv, PushesHeld, [Next]_vars, NEW s \in Syncers, pc'[s] = "push"
             PROVE  file'[s] \in Pending' \cup stored'
  BY DEF PushesHeld
<1>1. CASE file'[s] \in Pending'
  BY <1>1
<1>2. CASE pc[s] = "push" /\ file'[s] = file[s]
  <2>1. file[s] \in Events /\ file[s] \in Pending \cup stored
    BY <1>2, Kinds DEF PushesHeld
  <2>2. QED
    BY <1>2, <2>1, EventsStay, PushBegins
<1>3. QED
  BY <1>1, <1>2, PushBegins

\* The spool is a durable outbox (spool.py:34): hooks, syncers, kills and power losses,
\* file operation by file operation, take no step but those of Outbox.  An event is
\* dropped from pending only when the server has it, pushed only from pending,
\* although the syncer read the file earlier and another may have moved it since, and
\* promised only when a power loss leaves it there.
THEOREM SpoolIsOutbox == Spec => ImplementsOutbox
<1>1. Init => Box!OutboxInit /\ PushesHeld
  BY SpoolAssumption DEF Init, Box!OutboxInit, PushesHeld, Pending, Files, Processes
<1>2. IInv /\ PushesHeld /\ [Next]_vars => [Box!OutboxNext]_(Box!boxVars)
  BY BoxStep
<1>3. QED
  BY <1>1, <1>2, PushesStep, SpoolInductive, PTL DEF Spec, ImplementsOutbox, Box!OutboxSpec

\* What an outbox promises it keeps, whatever implements it: a promised event is on the
\* server, or held where a power loss leaves it (spool.py:34, 55-70).
THEOREM OutboxKeepsPromises == ImplementsOutbox => [](promised \subseteq stored \cup (Held \cap Safe))
<1> DEFINE Kept == promised \subseteq stored \cup (Held \cap Safe)
<1>1. Box!OutboxInit => Kept
  BY DEF Box!OutboxInit
<1>2. ASSUME Kept, [Box!OutboxNext]_(Box!boxVars) PROVE Kept'
  <2>1. CASE UNCHANGED Box!boxVars
    BY <1>2, <2>1 DEF Box!boxVars, Held, Safe
  <2>2. ASSUME NEW m \in Events, Box!Capture(m) \/ Box!Deliver(m) \/ Box!Clear(m) PROVE Kept'
    BY <1>2, <2>2 DEF Box!Capture, Box!Deliver, Box!Clear, Held, Safe
  <2>3. ASSUME NEW M \in SUBSET Events, Box!Flush(M) PROVE Kept'
    BY <1>2, <2>3 DEF Box!Flush, Held, Safe
  <2>4. CASE Box!Crash
    BY <1>2, <2>4 DEF Box!Crash, Held, Safe
  <2>5. QED
    BY <1>2, <2>1, <2>2, <2>3, <2>4 DEF Box!OutboxNext
<1>3. QED
  BY <1>1, <1>2, PTL DEF ImplementsOutbox, Box!OutboxSpec

=============================================================================
