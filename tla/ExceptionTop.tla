---------------------------- MODULE ExceptionTop ----------------------------
(***************************************************************************)
(* ExceptionTopKeeper (src/exception_top_proto_storage.cpp): each thread   *)
(* keeps its most frequent exceptions and saves them to a file of its own, *)
(* by way of a temporary file that all threads share.  Each round of a     *)
(* loop over the top, each call on a file and each block written to one is *)
(* a step; the process may crash between any two of them, and what is on   *)
(* disk then survives.                                                     *)
(***************************************************************************)
EXTENDS RankedMap, FiniteSets, Functions

CONSTANTS Threads,
          Texts,          \* exception texts: their positions in lexicographic order
          TopSize,        \* top_size
          KeepTime,       \* keep_time
          MaxTime,        \* bound: the latest time
          MaxExceptions,  \* bound: exceptions caught
          Garbled,        \* what Restore may read from pieces of messages
          Temporary, NULL

ASSUME BoundsAssumption ==
    /\ Texts \subseteq Nat /\ TopSize \in Nat \ {0} /\ KeepTime \in Nat \ {0}
    /\ MaxTime \in Nat /\ MaxExceptions \in Nat
    /\ Temporary \notin Threads /\ NULL \notin Threads \cup {Temporary}

VARIABLES exception_count, exception_last_time,  \* [t]: ranked maps of thread t
          store_clock,  \* [t]: current_time
          pc,
          file,     \* [path]: its contents; a path is a thread or Temporary, for
                    \* temp_directory_path() / "data"
          out,      \* [t]: the path whose file is open in Dump; NULL: closed, or the
                    \* file has no path any more
          caught,   \* exceptions caught since the beginning
          overlap   \* two threads have used the temporary file at the same time

maps == <<exception_count, exception_last_time>>
disk == <<file, out>>
vars == <<maps, store_clock, pc, disk, caught, overlap>>

\* What Dump serializes.  Times are counted from the earliest there is.
IsEntries(e) ==
    DOMAIN e \subseteq Texts /\ IsFiniteSet(DOMAIN e) /\ e \in [DOMAIN e -> Nat]
IsMessage(m) == /\ m = [count |-> m.count, last_time |-> m.last_time]
                /\ IsEntries(m.count) /\ IsEntries(m.last_time)

NoTop == [count |-> <<>>, last_time |-> <<>>]
Top(t) == [count |-> exception_count[t].key_value,
           last_time |-> exception_last_time[t].key_value]

\* A path that has no whole message (an empty file has one, NoTop): no file, the
\* first blocks of the message t is writing, or blocks of several messages.
Pieces == [by : SUBSET Threads]
NoFile == [by |-> {}]
Part(t) == [by |-> {t}]
Mixed == [by |-> Threads]

\* What cannot be parsed is read as no top.
ASSUME GarbledAssumption == NoTop \in Garbled /\ \A m \in Garbled : IsMessage(m)

Init ==
    /\ exception_count = [t \in Threads |-> Empty]
    /\ exception_last_time = [t \in Threads |-> Empty]
    /\ store_clock = [t \in Threads |-> 0]
    /\ pc = [t \in Threads |-> "set_path"]
    /\ file = [path \in Threads \cup {Temporary} |->
                 IF path = Temporary THEN NoFile ELSE NoTop]
    /\ out = [t \in Threads |-> NULL]
    /\ caught = 0 /\ overlap = FALSE

Goto(t, from, to) == pc[t] = from /\ pc' = [pc EXCEPT ![t] = to]

----------------------------------------------------------------------------
\* A ranked map with the entries of a message, by Update of an empty one.
Filled(entries) ==
    [key_value |-> entries, value_key |-> {<<entries[k], k>> : k \in DOMAIN entries}]

\* SetPath and Restore.  Protobuf may take blocks of several messages, or part of
\* one, for a message.  The clock of a new process may show any time.
SetPath(t) ==
    /\ Goto(t, "set_path", "idle")
    /\ \E top \in IF file[t] \in Pieces THEN Garbled ELSE {file[t]} :
         /\ exception_count' = [exception_count EXCEPT ![t] = Filled(top.count)]
         /\ exception_last_time' = [exception_last_time EXCEPT ![t] = Filled(top.last_time)]
    /\ \E now \in 0 .. MaxTime : store_clock' = [store_clock EXCEPT ![t] = now]
    /\ UNCHANGED <<disk, caught, overlap>>

\* Mutant: the first time does not count.
NextCountFromZero(m, text) == IF HasKey(m, text) THEN m.key_value[text] + 1 ELSE 0

NextCount(m, text) == IF HasKey(m, text) THEN m.key_value[text] + 1 ELSE 1

\* WithCatchingException up to the call of RemoveOld; time passes between calls.
CatchException(t) == \E text \in Texts, now \in store_clock[t] + 1 .. MaxTime :
    /\ caught < MaxExceptions /\ caught' = caught + 1
    /\ Goto(t, "idle", "remove_old")
    /\ exception_count' =
         [exception_count EXCEPT ![t] = Update(@, text, NextCount(@, text))]
    /\ store_clock' = [store_clock EXCEPT ![t] = now]
    /\ exception_last_time' = [exception_last_time EXCEPT ![t] = Update(@, text, now)]
    /\ UNCHANGED <<disk, overlap>>

\* Mutant: an exception stays counted when its time is removed.
EraseFromLastTime(t, text) ==
    /\ exception_last_time' = [exception_last_time EXCEPT ![t] = Erase(@, text)]
    /\ UNCHANGED exception_count

EraseFromBoth(t, text) ==
    /\ exception_count' = [exception_count EXCEPT ![t] = Erase(@, text)]
    /\ exception_last_time' = [exception_last_time EXCEPT ![t] = Erase(@, text)]

\* Mutant: keep_time is forgotten.
IsOldNow(t, time) == time <= store_clock[t]

IsOld(t, time) == time <= store_clock[t] - KeepTime

\* One round of the loop, which does not ask whether the map is empty by now; see
\* YoungestStays.  Before the loop the code does ask, and finds what was just caught.
RemoveOld(t) ==
    LET times == exception_last_time[t]
        oldest == Lowest(times)
    IN  /\ \/ /\ pc[t] = "remove_old" /\ IsOld(t, times.key_value[oldest])
              /\ EraseFromBoth(t, oldest) /\ UNCHANGED pc
           \/ /\ Goto(t, "remove_old", "trim") /\ ~IsOld(t, times.key_value[oldest])
              /\ UNCHANGED maps
        /\ UNCHANGED <<store_clock, disk, caught, overlap>>

\* Mutant: the top may have one exception too many.
IsFullLate(t) == Cardinality(DOMAIN exception_count[t].key_value) > TopSize + 1

IsFull(t) == Cardinality(DOMAIN exception_count[t].key_value) > TopSize

\* One round of the loop.  Dump returns if its timer has not run out.
Trim(t) ==
    /\ \/ /\ IsFull(t) /\ pc[t] = "trim"
          /\ EraseFromBoth(t, Lowest(exception_count[t])) /\ UNCHANGED pc
       \/ /\ ~IsFull(t) /\ UNCHANGED maps
          /\ Goto(t, "trim", "idle") \/ Goto(t, "trim", "open")
    /\ UNCHANGED <<store_clock, disk, caught, overlap>>

UsesTemporary(t) == pc[t] \in {"write", "write_more", "rename"}

\* Mutant: a file left behind is taken for the one to be written.
OpenTemporaryLeft(t) ==
    /\ Goto(t, "open", IF file[Temporary] = NoFile THEN "write" ELSE "rename")
    /\ file' = [file EXCEPT ![Temporary] = IF @ = NoFile THEN NoTop ELSE @]
    /\ out' = [out EXCEPT ![t] = Temporary]
    /\ overlap' = (overlap \/ \E u \in Threads : UsesTemporary(u))
    /\ UNCHANGED <<maps, store_clock, caught>>

\* std::ofstream truncates the file, also when another thread has it open, or
\* creates it.
OpenTemporary(t) ==
    /\ Goto(t, "open", "write")
    /\ file' = [file EXCEPT ![Temporary] = NoTop]
    /\ out' = [out EXCEPT ![t] = Temporary]
    /\ overlap' = (overlap \/ \E u \in Threads : UsesTemporary(u))
    /\ UNCHANGED <<maps, store_clock, caught>>

\* The next block, or all that is left of the message and the end of the file.  The
\* open file may be at a thread's path by now, and another thread may have written
\* to it, or truncated it, since t's last block.
SerializeToOstream(t) ==
    LET mine == file[out[t]] = IF pc[t] = "write" THEN NoTop ELSE Part(t)
        Written(contents) ==
            IF out[t] = NULL THEN UNCHANGED file
            ELSE \/ file' = [file EXCEPT ![out[t]] = contents]
                 \/ ~mine /\ file' = [file EXCEPT ![out[t]] = Mixed]
    IN  /\ pc[t] \in {"write", "write_more"}
        /\ \/ /\ pc' = [pc EXCEPT ![t] = "write_more"] /\ Written(Part(t))
              /\ UNCHANGED out
           \/ /\ pc' = [pc EXCEPT ![t] = "rename"] /\ Written(Top(t))
              /\ out' = [out EXCEPT ![t] = NULL]
        /\ UNCHANGED <<maps, store_clock, caught, overlap>>

Moved(t, path) == IF path = Temporary THEN t ELSE IF path = t THEN NULL ELSE path

Rename(t) ==
    /\ file[Temporary] # NoFile /\ Goto(t, "rename", "idle")
    /\ file' = [file EXCEPT ![t] = file[Temporary], ![Temporary] = NoFile]
    /\ out' = [u \in Threads |-> Moved(t, out[u])]
    /\ UNCHANGED <<maps, store_clock, caught, overlap>>

\* The process ends and is started again.
Restart ==
    /\ pc' = [t \in Threads |-> "set_path"]
    /\ exception_count' = [t \in Threads |-> Empty]
    /\ exception_last_time' = [t \in Threads |-> Empty]
    /\ store_clock' = [t \in Threads |-> 0]
    /\ out' = [t \in Threads |-> NULL]
    /\ UNCHANGED <<file, caught, overlap>>

\* Without a file to move, rename throws, in a method that is noexcept.
Terminate(t) == file[Temporary] = NoFile /\ pc[t] = "rename" /\ Restart

Crash == (\E t \in Threads : pc[t] # "set_path") /\ Restart

ThreadStep(t) ==
    \/ SetPath(t) \/ CatchException(t) \/ RemoveOld(t) \/ Trim(t)
    \/ OpenTemporary(t) \/ SerializeToOstream(t) \/ Rename(t) \/ Terminate(t)

Next == (\E t \in Threads : ThreadStep(t)) \/ Crash

Spec == Init /\ [][Next]_vars

\* A thread keeps being scheduled.
FairSpec == Spec /\ \A t \in Threads : WF_vars(ThreadStep(t))

----------------------------------------------------------------------------
(* Properties *)

\* The shape of the state; what is in the top has happened, unless it comes from
\* blocks of several messages.
TypeOK ==
    /\ \A t \in Threads : /\ IsMessage(Top(t))
                          /\ store_clock[t] \in 0 .. MaxTime
                          /\ out[t] \in Threads \cup {Temporary, NULL}
                          /\ ~overlap => 0 \notin Range(Top(t).count)
    /\ \A path \in Threads \cup {Temporary} :
         file[path] \in Pieces \/ IsMessage(file[path])
    /\ caught \in 0 .. MaxExceptions /\ overlap \in BOOLEAN
    /\ pc \in [Threads -> {"set_path", "idle", "remove_old", "trim", "open", "write",
                           "write_more", "rename"}]

\* In both ranked maps the ordered pairs are those of the map.  As long as no two
\* dumps have overlapped, an exception is counted if and only if it has a time (it
\* would never age without one), in the top and in the file, which is one whole
\* message, wherever the process has crashed.
KeysAgree == \A t \in Threads :
    /\ Agree(exception_count[t]) /\ Agree(exception_last_time[t])
    /\ ~overlap => /\ file[t] \notin Pieces
                   /\ \A top \in {Top(t), file[t]} : DOMAIN top.count = DOMAIN top.last_time

\* RemoveOld never runs out of exceptions and dereferences the end of the map: among
\* those left is one that is young, the one that was just caught.
YoungestStays == \A t \in Threads : pc[t] = "remove_old" =>
    \E entry \in exception_last_time[t].value_key : ~IsOld(t, entry[1])

\* What is going to be saved has no more than TopSize exceptions and no old ones,
\* whatever has been restored.
SavedIsTrimmed == \A t \in Threads :
    pc[t] \in {"open", "write", "write_more", "rename"} =>
        /\ Cardinality(DOMAIN Top(t).count) <= TopSize
        /\ \A k \in DOMAIN Top(t).last_time :
             Top(t).last_time[k] > store_clock[t] - KeepTime

\* As long as no two dumps have overlapped, a thread's file changes in one step to
\* its whole present top, whatever a crash or another thread has left in the
\* temporary file ("moved file is safe even when some other process or thread is
\* reading it"), and there is a file to move.
FileIsWholeTop ==
    [][~overlap => \A t \in Threads : /\ file'[t] # file[t] => file'[t] = Top(t)
                                      /\ ~Terminate(t)]_vars

\* The loops over the top end, whatever the file has brought in.
HandlingEnds == \A t \in Threads : []<>(pc[t] \notin {"remove_old", "trim"})
=============================================================================
