---------------------- MODULE MessagePassingController ----------------------
(***************************************************************************)
(* What GetResharding and the message passing pool share of                *)
(* MessagePassingController (src/sharder.h).  A distribution gives each    *)
(* thread a set of message processors.                                     *)
(***************************************************************************)
EXTENDS MessagePassingTree

CONSTANT NThreads  \* threads_count

Threads == 0 .. NThreads - 1

VARIABLE message_send_cvs  \* [e]: the thread whose condition variable it is

\* A thread more than there are message processors is never started.
ASSUME ThreadsAssumption == NThreads \in 1 .. Len(Tree.processors)

\* GetInitialSharding.
InitialSharding == [t \in Threads |-> {m \in MPs : m % NThreads = t}]

\* Mutant: the sender's thread is woken instead of the receiver's.
SenderCVSOfSender(conf) ==
    [e \in Edges |->
        LET owners == {t \in Threads : From(e) \in conf[t]}
        IN  IF owners = {} THEN 0 ELSE Max(owners)]

\* SetSenderCVS: the thread of each edge's receiver; thread 0 for one nobody has.
SenderCVS(conf) ==
    [e \in Edges |->
        LET owners == {t \in Threads : To(e) \in conf[t]}
        IN  IF owners = {} THEN 0 ELSE Max(owners)]

\* Every message processor on one thread.
Distributions == {conf \in [Threads -> SUBSET MPs] :
    \A mp \in MPs : Cardinality({t \in Threads : mp \in conf[t]}) = 1}
=============================================================================
