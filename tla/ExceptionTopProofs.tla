------------------------- MODULE ExceptionTopProofs -------------------------
(***************************************************************************)
(* Theorems about ExceptionTop, for any threads, texts, times and bounds:  *)
(* what a thread keeps, and what it finds and leaves on disk, wherever the *)
(* process crashes.  Where dumps overlap the files may hold anything.      *)
(***************************************************************************)
EXTENDS ExceptionTop, WellOrder, FiniteSetTheorems

(* Ranked maps *)

\* The ranked maps with some values.
Entries(values) == UNION {[keys -> values] : keys \in SUBSET Texts}
RankedMaps(values) ==
    {m \in [key_value : Entries(values), value_key : SUBSET (values \X Texts)] : Agree(m)}

LEMMA EntriesAreFunctions ==
    ASSUME NEW values, NEW entries
    PROVE  entries \in Entries(values) <=>
             /\ entries = [k \in DOMAIN entries |-> entries[k]]
             /\ DOMAIN entries \subseteq Texts
             /\ \A k \in DOMAIN entries : entries[k] \in values
  BY DEF Entries

LEMMA NothingIsEntries ==
    ASSUME NEW values
    PROVE  <<>> \in Entries(values) /\ DOMAIN <<>> = {}
<1>1. <<>> \in [{} -> values] /\ DOMAIN <<>> = {}
  OBVIOUS
<1>. QED  BY <1>1 DEF Entries

LEMMA EmptyIsRankedMap ==
    ASSUME NEW values
    PROVE  Empty \in RankedMaps(values) /\ DOMAIN Empty.key_value = {}
  BY NothingIsEntries DEF Empty, RankedMaps, Agree

LEMMA FilledIsRankedMap ==
    ASSUME NEW values, NEW entries \in Entries(values)
    PROVE  Filled(entries) \in RankedMaps(values) /\ Filled(entries).key_value = entries
  BY EntriesAreFunctions DEF Filled, RankedMaps, Agree

LEMMA EraseErases ==
    ASSUME NEW values, NEW m \in RankedMaps(values), NEW key
    PROVE  /\ Erase(m, key) \in RankedMaps(values)
           /\ DOMAIN Erase(m, key).key_value = DOMAIN m.key_value \ {key}
           /\ \A k \in DOMAIN m.key_value \ {key} :
                Erase(m, key).key_value[k] = m.key_value[k]
<1>. DEFINE erased == Erase(m, key)
<1>1. m.key_value \in Entries(values) /\ m.value_key \subseteq values \X Texts /\ Agree(m)
  BY DEF RankedMaps
<1>2. CASE ~HasKey(m, key)
  BY <1>2 DEF Erase, HasKey
<1>3. CASE HasKey(m, key)
  <2>1. erased = [key_value |-> [k \in DOMAIN m.key_value \ {key} |-> m.key_value[k]],
                  value_key |-> m.value_key \ {<<m.key_value[key], key>>}]
    BY <1>3 DEF Erase
  <2>2. erased.key_value \in Entries(values)
    BY <1>1, <2>1, EntriesAreFunctions
  <2>3. Agree(erased)
    BY <1>1, <1>3, <2>1 DEF Agree, HasKey
  <2>. QED  BY <1>1, <2>1, <2>2, <2>3 DEF RankedMaps
<1>. QED  BY <1>2, <1>3

LEMMA UpdateUpdates ==
    ASSUME NEW values, NEW m \in RankedMaps(values), NEW key \in Texts, NEW value \in values
    PROVE  /\ Update(m, key, value) \in RankedMaps(values)
           /\ DOMAIN Update(m, key, value).key_value = DOMAIN m.key_value \cup {key}
           /\ Update(m, key, value).key_value[key] = value
           /\ \A k \in DOMAIN m.key_value \ {key} :
                Update(m, key, value).key_value[k] = m.key_value[k]
<1>. DEFINE updated == Update(m, key, value)
<1>1. m.key_value \in Entries(values) /\ m.value_key \subseteq values \X Texts /\ Agree(m)
  BY DEF RankedMaps
<1>2. updated = [key_value |-> [k \in DOMAIN m.key_value \cup {key} |->
                                  IF k = key THEN value ELSE m.key_value[k]],
                 value_key |-> Erase(m, key).value_key \cup {<<value, key>>}]
  BY DEF Update
<1>3. updated.key_value \in Entries(values)
  BY <1>1, <1>2, EntriesAreFunctions
<1>4. Erase(m, key).value_key =
        {<<m.key_value[k], k>> : k \in DOMAIN m.key_value \ {key}}
  BY <1>1 DEF Erase, HasKey, Agree
<1>5. Agree(updated)
  BY <1>2, <1>4 DEF Agree
<1>6. updated.value_key \subseteq values \X Texts
  BY <1>1, <1>2, <1>4, EntriesAreFunctions
<1>. QED  BY <1>2, <1>3, <1>5, <1>6 DEF RankedMaps

\* The lowest value of a ranked map that is not empty belongs to Lowest.
LEMMA LowestIsLowest ==
    ASSUME NEW values \in SUBSET Nat, NEW m \in RankedMaps(values),
           DOMAIN m.key_value # {}, Texts \subseteq Nat
    PROVE  /\ Lowest(m) \in DOMAIN m.key_value
           /\ \A k \in DOMAIN m.key_value : m.key_value[Lowest(m)] <= m.key_value[k]
<1>. DEFINE numbers == {p[1] : p \in m.value_key}
            IsFirst(p) == \A q \in m.value_key :
                            p[1] < q[1] \/ (p[1] = q[1] /\ p[2] <= q[2])
<1>1. m.value_key = {<<m.key_value[k], k>> : k \in DOMAIN m.key_value}
      /\ m.value_key \subseteq Nat \X Nat
  BY DEF RankedMaps, Agree
<1>2. PICK n \in numbers : \A i \in numbers : n <= i
  <2>1. numbers \in SUBSET Nat /\ numbers # {}
    BY <1>1
  <2>. HIDE DEF numbers
  <2>. QED  BY <2>1, LeastNatural
<1>. DEFINE keys == {p[2] : p \in {q \in m.value_key : q[1] = n}}
<1>3. PICK k \in keys : \A i \in keys : k <= i
  <2>1. keys \in SUBSET Nat /\ keys # {}
    BY <1>1
  <2>. HIDE DEF keys
  <2>. QED  BY <2>1, LeastNatural
<1>4. <<n, k>> \in m.value_key
  BY <1>1
<1>5. IsFirst(<<n, k>>)
  <2>. SUFFICES ASSUME NEW q \in m.value_key
                PROVE  n < q[1] \/ (n = q[1] /\ k <= q[2])
    OBVIOUS
  <2>1. n <= q[1] /\ n \in Nat /\ q[1] \in Nat
    BY <1>1, <1>2
  <2>2. q[1] = n => k <= q[2]
    BY <1>3
  <2>. QED  BY <2>1, <2>2
<1>6. (CHOOSE p \in m.value_key : IsFirst(p)) \in m.value_key
      /\ IsFirst(CHOOSE p \in m.value_key : IsFirst(p))
  <2>. HIDE DEF IsFirst
  <2>. QED  BY <1>4, <1>5
<1>7. PICK p \in m.value_key : Lowest(m) = p[2] /\ IsFirst(p)
  BY <1>6 DEF Lowest
<1>8. p[2] \in DOMAIN m.key_value /\ p[1] = m.key_value[p[2]]
  BY <1>1
<1>9. ASSUME NEW i \in DOMAIN m.key_value PROVE p[1] <= m.key_value[i]
  <2>1. <<m.key_value[i], i>> \in m.value_key
    BY <1>1
  <2>2. p[1] \in Nat /\ m.key_value[i] \in Nat
    BY <1>1, <2>1
  <2>3. p[1] < m.key_value[i] \/ p[1] = m.key_value[i]
    BY <1>7, <2>1
  <2>. QED  BY <2>2, <2>3
<1>. QED  BY <1>7, <1>8, <1>9
----------------------------------------------------------------------------
(* The inductive invariant *)

Messages == [count : Entries(Nat), last_time : Entries(Nat)]
Paths == Threads \cup {Temporary}

Sound(top) ==
    top \in Messages /\ IsFiniteSet(DOMAIN top.count) /\ IsFiniteSet(DOMAIN top.last_time)

\* Texts are in both maps, and have been counted.
SameKeys(top) == /\ DOMAIN top.count = DOMAIN top.last_time
                 /\ \A k \in DOMAIN top.count : top.count[k] # 0

MapsInv ==
    /\ exception_count \in [Threads -> RankedMaps(Nat)]
    /\ exception_last_time \in [Threads -> RankedMaps(Nat)]
    /\ \A t \in Threads : Sound(Top(t)) /\ (overlap \/ SameKeys(Top(t)))

FileInv ==
    /\ file \in [Paths -> Pieces \cup Messages]
    /\ \A path \in Paths : file[path] \in Pieces \/ Sound(file[path])
    /\ ~overlap => \A t \in Threads : Sound(file[t]) /\ SameKeys(file[t])

Writes(t) == pc[t] \in {"write", "write_more"}

\* The temporary file is what the one thread that uses it has made of it, unless
\* dumps have overlapped.
OutInv ==
    /\ out \in [Threads -> Paths \cup {NULL}]
    /\ \A t \in Threads : out[t] # NULL => Writes(t)
    /\ ~overlap => \A t \in Threads :
         /\ Writes(t) => out[t] = Temporary
         /\ pc[t] = "write" => file[Temporary] = NoTop
         /\ pc[t] = "write_more" => file[Temporary] = Part(t)
         /\ pc[t] = "rename" => file[Temporary] = Top(t)
         /\ \A u \in Threads : UsesTemporary(t) /\ UsesTemporary(u) => t = u

\* What the loops have achieved.
TrimInv == \A t \in Threads :
    /\ pc[t] = "remove_old" =>
         \E k \in DOMAIN Top(t).last_time : Top(t).last_time[k] = store_clock[t]
    /\ pc[t] \in {"trim", "open", "write", "write_more", "rename"} =>
         \A k \in DOMAIN Top(t).last_time : Top(t).last_time[k] > store_clock[t] - KeepTime
    /\ pc[t] \in {"open", "write", "write_more", "rename"} =>
         Cardinality(DOMAIN Top(t).count) <= TopSize

RestInv ==
    /\ store_clock \in [Threads -> 0 .. MaxTime] /\ caught \in 0 .. MaxExceptions
    /\ overlap \in BOOLEAN
    /\ pc \in [Threads -> {"set_path", "idle", "remove_old", "trim", "open", "write",
                           "write_more", "rename"}]

IInv == MapsInv /\ FileInv /\ OutInv /\ TrimInv /\ RestInv
----------------------------------------------------------------------------
(* Messages *)

LEMMA SoundIsMessage ==
    ASSUME NEW top
    PROVE  Sound(top) <=> IsMessage(top)
<1>1. ASSUME Sound(top) PROVE IsMessage(top)
  <2>1. top = [count |-> top.count, last_time |-> top.last_time]
        /\ top.count \in Entries(Nat) /\ top.last_time \in Entries(Nat)
    BY <1>1 DEF Sound, Messages
  <2>. QED  BY <1>1, <2>1, EntriesAreFunctions DEF Sound, IsMessage, IsEntries
<1>2. ASSUME IsMessage(top) PROVE Sound(top)
  <2>1. top.count \in Entries(Nat) /\ top.last_time \in Entries(Nat)
    BY <1>2 DEF IsMessage, IsEntries, Entries
  <2>. QED  BY <1>2, <2>1 DEF Sound, Messages, IsMessage, IsEntries
<1>. QED  BY <1>1, <1>2

\* Pieces are told from whole messages.
LEMMA MessagesAreWhole ==
    ASSUME NEW top \in Messages
    PROVE  top \notin Pieces
<1>. SUFFICES ASSUME top \in Pieces PROVE FALSE
  OBVIOUS
<1>1. DOMAIN top = {"by"}
  BY DEF Pieces
<1>2. DOMAIN top = {"count", "last_time"}
  BY DEF Messages
<1>. QED  BY <1>1, <1>2

LEMMA PartIsPiece ==
    /\ NoFile \in Pieces /\ Mixed \in Pieces
    /\ \A t \in Threads : Part(t) \in Pieces
  BY DEF NoFile, Mixed, Part, Pieces

\* The message of a pair of ranked maps.
TopOf(counts, times) == [count |-> counts.key_value, last_time |-> times.key_value]

LEMMA NoTopIsSound == Sound(NoTop) /\ SameKeys(NoTop)
<1>1. NoTop.count = <<>> /\ NoTop.last_time = <<>> /\ NoTop \in Messages
  BY NothingIsEntries DEF NoTop, Messages
<1>. QED  BY <1>1, NothingIsEntries, FS_EmptySet DEF Sound, SameKeys

LEMMA FilledIsTop ==
    ASSUME NEW top \in Messages
    PROVE  /\ Filled(top.count) \in RankedMaps(Nat)
           /\ Filled(top.last_time) \in RankedMaps(Nat)
           /\ TopOf(Filled(top.count), Filled(top.last_time)) = top
<1>1. top = [count |-> top.count, last_time |-> top.last_time]
      /\ top.count \in Entries(Nat) /\ top.last_time \in Entries(Nat)
  BY DEF Messages
<1>. QED  BY <1>1, FilledIsRankedMap DEF TopOf

LEMMA EraseKeepsSound ==
    ASSUME NEW counts \in RankedMaps(Nat), NEW times \in RankedMaps(Nat),
           NEW key, Sound(TopOf(counts, times))
    PROVE  /\ Sound(TopOf(Erase(counts, key), Erase(times, key)))
           /\ SameKeys(TopOf(counts, times)) =>
                SameKeys(TopOf(Erase(counts, key), Erase(times, key)))
<1>. DEFINE new == TopOf(Erase(counts, key), Erase(times, key))
<1>1. /\ Erase(counts, key) \in RankedMaps(Nat)
      /\ DOMAIN Erase(counts, key).key_value = DOMAIN counts.key_value \ {key}
      /\ \A k \in DOMAIN counts.key_value \ {key} :
           Erase(counts, key).key_value[k] = counts.key_value[k]
  BY EraseErases
<1>2. /\ Erase(times, key) \in RankedMaps(Nat)
      /\ DOMAIN Erase(times, key).key_value = DOMAIN times.key_value \ {key}
  BY EraseErases
<1>3. new \in Messages
  BY <1>1, <1>2 DEF TopOf, RankedMaps, Messages
<1>4. IsFiniteSet(DOMAIN counts.key_value \ {key})
      /\ IsFiniteSet(DOMAIN times.key_value \ {key})
  BY FS_Subset DEF Sound, TopOf
<1>5. SameKeys(TopOf(counts, times)) => SameKeys(new)
  BY <1>1, <1>2 DEF SameKeys, TopOf
<1>6. Sound(new)
  BY <1>1, <1>2, <1>3, <1>4 DEF Sound, TopOf
<1>. QED  BY <1>5, <1>6

LEMMA UpdateKeepsSound ==
    ASSUME NEW counts \in RankedMaps(Nat), NEW times \in RankedMaps(Nat),
           NEW text \in Texts, NEW now \in Nat, Sound(TopOf(counts, times))
    PROVE  LET count == NextCount(counts, text)
               new == TopOf(Update(counts, text, count), Update(times, text, now))
           IN  /\ Update(counts, text, count) \in RankedMaps(Nat)
               /\ Update(times, text, now) \in RankedMaps(Nat)
               /\ Sound(new)
               /\ SameKeys(TopOf(counts, times)) => SameKeys(new)
               /\ text \in DOMAIN new.last_time /\ new.last_time[text] = now
<1>. DEFINE count == NextCount(counts, text)
            new == TopOf(Update(counts, text, count), Update(times, text, now))
<1>1. count \in Nat /\ count # 0
  <2>1. counts.key_value \in Entries(Nat)
    BY DEF RankedMaps
  <2>2. HasKey(counts, text) => counts.key_value[text] \in Nat
    BY <2>1, EntriesAreFunctions DEF HasKey
  <2>. QED  BY <2>2 DEF NextCount
<1>. HIDE DEF count
<1>2. /\ Update(counts, text, count) \in RankedMaps(Nat)
      /\ DOMAIN Update(counts, text, count).key_value = DOMAIN counts.key_value \cup {text}
      /\ Update(counts, text, count).key_value[text] = count
      /\ \A k \in DOMAIN counts.key_value \ {text} :
           Update(counts, text, count).key_value[k] = counts.key_value[k]
  BY <1>1, UpdateUpdates
<1>3. /\ Update(times, text, now) \in RankedMaps(Nat)
      /\ DOMAIN Update(times, text, now).key_value = DOMAIN times.key_value \cup {text}
      /\ Update(times, text, now).key_value[text] = now
  BY UpdateUpdates
<1>4. new \in Messages
  BY <1>2, <1>3 DEF TopOf, RankedMaps, Messages
<1>5. IsFiniteSet(DOMAIN new.count) /\ IsFiniteSet(DOMAIN new.last_time)
  <2>1. IsFiniteSet(DOMAIN counts.key_value) /\ IsFiniteSet(DOMAIN times.key_value)
    BY DEF Sound, TopOf
  <2>2. DOMAIN new.count = DOMAIN counts.key_value \cup {text}
        /\ DOMAIN new.last_time = DOMAIN times.key_value \cup {text}
    BY <1>2, <1>3 DEF TopOf
  <2>3. IsFiniteSet(DOMAIN counts.key_value \cup {text})
    BY <2>1, FS_AddElement
  <2>4. IsFiniteSet(DOMAIN times.key_value \cup {text})
    BY <2>1, FS_AddElement
  <2>. QED  BY <2>2, <2>3, <2>4
<1>6. SameKeys(TopOf(counts, times)) => SameKeys(new)
  BY <1>1, <1>2, <1>3 DEF SameKeys, TopOf
<1>7. text \in DOMAIN new.last_time /\ new.last_time[text] = now
  BY <1>3 DEF TopOf
<1>. QED  BY <1>2, <1>3, <1>4, <1>5, <1>6, <1>7 DEF Sound, count
----------------------------------------------------------------------------
(* The invariant holds initially and is preserved *)

LEMMA InitIInv == Init => IInv
<1>. SUFFICES ASSUME Init PROVE IInv
  OBVIOUS
<1>1. MapsInv
  <2>1. \A t \in Threads : Top(t) = NoTop
    BY DEF Init, Top, NoTop, Empty
  <2>. QED  BY <2>1, NoTopIsSound, EmptyIsRankedMap DEF Init, MapsInv
<1>2. FileInv
  <2>1. NoTop \in Messages
    BY NoTopIsSound DEF Sound
  <2>. QED  BY <2>1, NoTopIsSound, PartIsPiece, BoundsAssumption DEF Init, FileInv, Paths
<1>3. OutInv /\ TrimInv
  BY DEF Init, OutInv, TrimInv, UsesTemporary, Writes
<1>4. RestInv
  <2>1. 0 \in 0 .. MaxTime /\ 0 \in 0 .. MaxExceptions
    BY BoundsAssumption
  <2>. QED  BY <2>1 DEF Init, RestInv
<1>. QED  BY <1>1, <1>2, <1>3, <1>4 DEF IInv

LEMMA TopIsTopOf == \A t \in Threads : Top(t) = TopOf(exception_count[t], exception_last_time[t])
  BY DEF Top, TopOf

\* A step that changes one thread's maps.
LEMMA OneThreadsMaps ==
    ASSUME MapsInv, NEW t \in Threads,
           NEW counts \in RankedMaps(Nat), NEW times \in RankedMaps(Nat),
           exception_count' = [exception_count EXCEPT ![t] = counts],
           exception_last_time' = [exception_last_time EXCEPT ![t] = times],
           overlap' = overlap,
           Sound(TopOf(counts, times)),
           overlap \/ SameKeys(TopOf(counts, times))
    PROVE  /\ MapsInv' /\ Top(t)' = TopOf(counts, times)
           /\ \A u \in Threads \ {t} : Top(u)' = Top(u)
<1>1. exception_count'[t] = counts /\ exception_last_time'[t] = times
  BY DEF MapsInv
<1>2. \A u \in Threads \ {t} : exception_count'[u] = exception_count[u]
                               /\ exception_last_time'[u] = exception_last_time[u]
  BY DEF MapsInv
<1>3. Top(t)' = TopOf(counts, times)
  BY <1>1 DEF Top, TopOf
<1>4. \A u \in Threads \ {t} : Top(u)' = Top(u)
  BY <1>2 DEF Top
<1>5. ASSUME NEW u \in Threads PROVE Sound(Top(u)') /\ (overlap' \/ SameKeys(Top(u)'))
  <2>1. CASE u = t
    BY <1>3, <2>1
  <2>2. CASE u # t
    BY <1>4, <2>2 DEF MapsInv
  <2>. QED  BY <2>1, <2>2
<1>6. /\ exception_count' \in [Threads -> RankedMaps(Nat)]
      /\ exception_last_time' \in [Threads -> RankedMaps(Nat)]
  BY DEF MapsInv
<1>. QED  BY <1>3, <1>4, <1>5, <1>6 DEF MapsInv

\* A step of a thread that is not dumping leaves the disk as it is.
LEMMA DiskUntouched ==
    ASSUME FileInv, OutInv, NEW t \in Threads, ~UsesTemporary(t), ~UsesTemporary(t)',
           UNCHANGED <<disk, overlap>>,
           \A u \in Threads \ {t} : pc'[u] = pc[u] /\ Top(u)' = Top(u)
    PROVE  FileInv' /\ OutInv'
<1>1. FileInv'
  BY DEF FileInv, disk
<1>2. \A u \in Threads : out[u] # NULL => u # t
  BY DEF OutInv, UsesTemporary, Writes
<1>3. \A u \in Threads : pc'[u] \in {"write", "write_more", "rename"} => u # t
  BY DEF UsesTemporary
<1>4. OutInv'
  BY <1>2, <1>3 DEF OutInv, disk, UsesTemporary, Writes
<1>. QED  BY <1>1, <1>4

LEMMA SetPathStep ==
    ASSUME IInv, NEW t \in Threads, SetPath(t)
    PROVE  IInv'
<1>0. MapsInv /\ FileInv /\ OutInv /\ TrimInv /\ RestInv
  BY DEF IInv
<1>1. PICK top \in IF file[t] \in Pieces THEN Garbled ELSE {file[t]} :
        /\ exception_count' = [exception_count EXCEPT ![t] = Filled(top.count)]
        /\ exception_last_time' = [exception_last_time EXCEPT ![t] = Filled(top.last_time)]
  BY DEF SetPath
<1>2. top \in Messages /\ Sound(top) /\ (overlap \/ SameKeys(top))
  <2>1. CASE file[t] \in Pieces
    <3>1. overlap
      BY <1>0, <2>1, MessagesAreWhole DEF FileInv, Sound
    <3>. QED  BY <1>1, <2>1, <3>1, GarbledAssumption, SoundIsMessage DEF Sound
  <2>2. CASE file[t] \notin Pieces
    BY <1>0, <1>1, <2>2 DEF FileInv, Paths, Sound
  <2>. QED  BY <2>1, <2>2
<1>. DEFINE counts == Filled(top.count)
            times == Filled(top.last_time)
<1>3. /\ counts \in RankedMaps(Nat) /\ times \in RankedMaps(Nat)
      /\ TopOf(counts, times) = top
  BY <1>2, FilledIsTop
<1>4. caught' = caught /\ overlap' = overlap
  BY DEF SetPath
<1>5. MapsInv' /\ \A u \in Threads \ {t} : Top(u)' = Top(u)
  <2>1. /\ exception_count' = [exception_count EXCEPT ![t] = counts]
        /\ exception_last_time' = [exception_last_time EXCEPT ![t] = times]
    BY <1>1
  <2>. HIDE DEF counts, times
  <2>. QED  BY <1>0, <1>2, <1>3, <1>4, <2>1, OneThreadsMaps
<1>6. pc[t] = "set_path" /\ pc' = [pc EXCEPT ![t] = "idle"]
      /\ pc \in [Threads -> {"set_path", "idle", "remove_old", "trim", "open", "write",
                         "write_more", "rename"}]
  BY <1>0 DEF SetPath, Goto, RestInv
<1>7. FileInv' /\ OutInv'
  <2>1. ~UsesTemporary(t) /\ ~UsesTemporary(t)'
        /\ \A u \in Threads \ {t} : pc'[u] = pc[u]
    BY <1>6 DEF UsesTemporary
  <2>2. UNCHANGED <<disk, overlap>>
    BY DEF SetPath
  <2>. QED  BY <1>0, <1>5, <2>1, <2>2, DiskUntouched
<1>8. RestInv'
  BY <1>0, <1>6 DEF RestInv, SetPath
<1>9. TrimInv'
  <2>1. \A u \in Threads \ {t} : pc'[u] = pc[u] /\ store_clock'[u] = store_clock[u]
    BY <1>0, <1>6 DEF SetPath, RestInv
  <2>2. pc'[t] = "idle"
    BY <1>6
  <2>. QED  BY <1>0, <1>5, <2>1, <2>2 DEF TrimInv
<1>. QED  BY <1>5, <1>7, <1>8, <1>9 DEF IInv

LEMMA CatchExceptionStep ==
    ASSUME IInv, NEW t \in Threads, CatchException(t)
    PROVE  IInv'
<1>0. MapsInv /\ FileInv /\ OutInv /\ TrimInv /\ RestInv
  BY DEF IInv
<1>1. PICK text \in Texts, now \in store_clock[t] + 1 .. MaxTime :
    /\ caught < MaxExceptions /\ caught' = caught + 1
    /\ Goto(t, "idle", "remove_old")
    /\ exception_count' =
         [exception_count EXCEPT ![t] = Update(@, text, NextCount(@, text))]
    /\ store_clock' = [store_clock EXCEPT ![t] = now]
    /\ exception_last_time' = [exception_last_time EXCEPT ![t] = Update(@, text, now)]
    /\ UNCHANGED <<disk, overlap>>
  BY DEF CatchException
<1>. DEFINE counts == Update(exception_count[t], text, NextCount(exception_count[t], text))
            times == Update(exception_last_time[t], text, now)
<1>2. store_clock[t] \in 0 .. MaxTime /\ caught \in 0 .. MaxExceptions
  BY <1>0 DEF RestInv
<1>3. now \in Nat /\ now \in 0 .. MaxTime /\ caught' \in 0 .. MaxExceptions
  BY <1>1, <1>2, BoundsAssumption
<1>4. /\ exception_count[t] \in RankedMaps(Nat) /\ exception_last_time[t] \in RankedMaps(Nat)
      /\ Sound(TopOf(exception_count[t], exception_last_time[t]))
      /\ overlap \/ SameKeys(TopOf(exception_count[t], exception_last_time[t]))
  BY <1>0, TopIsTopOf DEF MapsInv
<1>5. /\ counts \in RankedMaps(Nat) /\ times \in RankedMaps(Nat)
      /\ Sound(TopOf(counts, times))
      /\ overlap \/ SameKeys(TopOf(counts, times))
      /\ text \in DOMAIN TopOf(counts, times).last_time
      /\ TopOf(counts, times).last_time[text] = now
  BY <1>1, <1>3, <1>4, UpdateKeepsSound
<1>. HIDE DEF counts, times
<1>6. /\ exception_count' = [exception_count EXCEPT ![t] = counts]
      /\ exception_last_time' = [exception_last_time EXCEPT ![t] = times]
  BY <1>1 DEF counts, times
<1>7. MapsInv' /\ Top(t)' = TopOf(counts, times)
      /\ \A u \in Threads \ {t} : Top(u)' = Top(u)
  <2>. QED  BY <1>0, <1>1, <1>5, <1>6, OneThreadsMaps
<1>8. pc[t] = "idle" /\ pc'[t] = "remove_old" /\ \A u \in Threads \ {t} : pc'[u] = pc[u]
  BY <1>0, <1>1 DEF Goto, RestInv
<1>9. FileInv' /\ OutInv'
  <2>1. ~UsesTemporary(t) /\ ~UsesTemporary(t)'
    BY <1>8 DEF UsesTemporary
  <2>. QED  BY <1>0, <1>1, <1>7, <1>8, <2>1, DiskUntouched
<1>10. RestInv'
  BY <1>0, <1>1, <1>3 DEF RestInv, Goto
<1>11. TrimInv'
  <2>1. store_clock'[t] = now /\ \A u \in Threads \ {t} : store_clock'[u] = store_clock[u]
    BY <1>0, <1>1 DEF RestInv
  <2>. QED  BY <1>0, <1>5, <1>7, <1>8, <2>1 DEF TrimInv
<1>. QED  BY <1>7, <1>9, <1>10, <1>11 DEF IInv

\* Erasing the same text from both maps of a thread.
LEMMA EraseFromBothMaps ==
    ASSUME IInv, NEW t \in Threads, NEW text, EraseFromBoth(t, text),
           caught' = caught, overlap' = overlap
    PROVE  /\ MapsInv'
           /\ DOMAIN Top(t)'.last_time = DOMAIN Top(t).last_time \ {text}
           /\ \A k \in DOMAIN Top(t).last_time \ {text} :
                Top(t)'.last_time[k] = Top(t).last_time[k]
           /\ \A u \in Threads \ {t} : Top(u)' = Top(u)
<1>. DEFINE counts == Erase(exception_count[t], text)
            times == Erase(exception_last_time[t], text)
<1>1. MapsInv
  BY DEF IInv
<1>2. /\ exception_count[t] \in RankedMaps(Nat) /\ exception_last_time[t] \in RankedMaps(Nat)
      /\ Sound(TopOf(exception_count[t], exception_last_time[t]))
      /\ overlap \/ SameKeys(TopOf(exception_count[t], exception_last_time[t]))
  BY <1>1, TopIsTopOf DEF MapsInv
<1>3. counts \in RankedMaps(Nat)
  BY <1>2, EraseErases
<1>4. /\ times \in RankedMaps(Nat)
      /\ DOMAIN times.key_value = DOMAIN exception_last_time[t].key_value \ {text}
      /\ \A k \in DOMAIN exception_last_time[t].key_value \ {text} :
           times.key_value[k] = exception_last_time[t].key_value[k]
  BY <1>2, EraseErases
<1>5. Sound(TopOf(counts, times)) /\ (overlap \/ SameKeys(TopOf(counts, times)))
  BY <1>2, EraseKeepsSound
<1>6. /\ exception_count' = [exception_count EXCEPT ![t] = counts]
      /\ exception_last_time' = [exception_last_time EXCEPT ![t] = times]
  BY DEF EraseFromBoth
<1>. HIDE DEF counts, times
<1>7. MapsInv' /\ Top(t)' = TopOf(counts, times)
      /\ \A u \in Threads \ {t} : Top(u)' = Top(u)
  BY <1>1, <1>3, <1>4, <1>5, <1>6, OneThreadsMaps
<1>. QED  BY <1>4, <1>7 DEF TopOf, Top

LEMMA RemoveOldStep ==
    ASSUME IInv, NEW t \in Threads, RemoveOld(t)
    PROVE  IInv'
<1>. DEFINE oldest == Lowest(exception_last_time[t])
<1>0. /\ MapsInv /\ FileInv /\ OutInv /\ TrimInv /\ RestInv
      /\ exception_last_time[t] \in RankedMaps(Nat)
      /\ Top(t).last_time = exception_last_time[t].key_value
  BY DEF IInv, MapsInv, Top
<1>1. /\ pc[t] = "remove_old" /\ \A u \in Threads \ {t} : pc'[u] = pc[u]
      /\ pc'[t] \in {"remove_old", "trim"}
      /\ UNCHANGED <<store_clock, disk, caught, overlap>>
  BY <1>0 DEF RemoveOld, Goto, RestInv
<1>2. RestInv'
  BY <1>0 DEF RestInv, RemoveOld, Goto
<1>3. store_clock[t] \in Nat /\ KeepTime \in Nat \ {0}
  BY <1>0, BoundsAssumption DEF RestInv
<1>4. ~UsesTemporary(t) /\ ~UsesTemporary(t)'
  BY <1>1 DEF UsesTemporary
<1>5. \A k \in DOMAIN Top(t).last_time : Top(t).last_time[k] \in Nat
  <2>1. Top(t).last_time \in Entries(Nat)
    BY <1>0 DEF RankedMaps
  <2>. QED  BY <1>3, <2>1, EntriesAreFunctions
<1>6. PICK k \in DOMAIN Top(t).last_time : Top(t).last_time[k] = store_clock[t]
  BY <1>0, <1>1 DEF TrimInv
<1>7. CASE IsOld(t, exception_last_time[t].key_value[oldest]) /\ EraseFromBoth(t, oldest)
           /\ UNCHANGED pc
  <2>. HIDE DEF oldest
  <2>1. /\ MapsInv'
        /\ DOMAIN Top(t)'.last_time = DOMAIN Top(t).last_time \ {oldest}
        /\ \A i \in DOMAIN Top(t).last_time \ {oldest} :
             Top(t)'.last_time[i] = Top(t).last_time[i]
        /\ \A u \in Threads \ {t} : Top(u)' = Top(u)
    BY <1>1, <1>7, EraseFromBothMaps
  <2>2. k # oldest
    BY <1>0, <1>3, <1>6, <1>7 DEF IsOld
  <2>3. TrimInv'
    BY <1>0, <1>1, <1>6, <1>7, <2>1, <2>2 DEF TrimInv
  <2>. QED  BY <1>0, <1>1, <1>2, <1>3, <1>4, <2>1, <2>3, DiskUntouched DEF IInv
<1>8. CASE ~IsOld(t, exception_last_time[t].key_value[oldest]) /\ pc'[t] = "trim"
           /\ UNCHANGED maps
  <2>1. \A u \in Threads : Top(u)' = Top(u)
    BY <1>8 DEF maps, Top
  <2>2. MapsInv'
    BY <1>0, <1>1, <1>8, <2>1 DEF MapsInv, maps
  <2>3. oldest \in DOMAIN Top(t).last_time
        /\ \A i \in DOMAIN Top(t).last_time : Top(t).last_time[oldest] <= Top(t).last_time[i]
    BY <1>0, <1>3, <1>6, LowestIsLowest, BoundsAssumption
  <2>. HIDE DEF oldest
  <2>4. ~(Top(t).last_time[oldest] <= store_clock[t] - KeepTime)
    BY <1>0, <1>8 DEF IsOld
  <2>5. ASSUME NEW i \in DOMAIN Top(t).last_time
        PROVE  Top(t).last_time[i] > store_clock[t] - KeepTime
    BY <1>3, <1>5, <2>3, <2>4
  <2>6. TrimInv'
    BY <1>0, <1>1, <1>8, <2>1, <2>5 DEF TrimInv
  <2>. QED  BY <1>0, <1>1, <1>2, <1>3, <1>4, <2>1, <2>2, <2>6, DiskUntouched DEF IInv
<1>. QED  BY <1>7, <1>8, <1>0 DEF RemoveOld, Goto, RestInv

LEMMA TrimStep ==
    ASSUME IInv, NEW t \in Threads, Trim(t)
    PROVE  IInv'
<1>0. MapsInv /\ FileInv /\ OutInv /\ TrimInv /\ RestInv
  BY DEF IInv
<1>1. /\ pc[t] = "trim" /\ \A u \in Threads \ {t} : pc'[u] = pc[u]
      /\ pc'[t] \in {"trim", "idle", "open"}
      /\ UNCHANGED <<store_clock, disk, caught, overlap>>
  BY <1>0 DEF Trim, Goto, RestInv
<1>2. RestInv'
  BY <1>0 DEF RestInv, Trim, Goto
<1>3. ~UsesTemporary(t) /\ ~UsesTemporary(t)'
  BY <1>1 DEF UsesTemporary
<1>4. \A k \in DOMAIN Top(t).last_time : Top(t).last_time[k] > store_clock[t] - KeepTime
  BY <1>0, <1>1 DEF TrimInv
<1>5. CASE EraseFromBoth(t, Lowest(exception_count[t])) /\ UNCHANGED pc
  <2>. DEFINE lowest == Lowest(exception_count[t])
  <2>. HIDE DEF lowest
  <2>1. /\ MapsInv'
        /\ DOMAIN Top(t)'.last_time = DOMAIN Top(t).last_time \ {lowest}
        /\ \A i \in DOMAIN Top(t).last_time \ {lowest} :
             Top(t)'.last_time[i] = Top(t).last_time[i]
        /\ \A u \in Threads \ {t} : Top(u)' = Top(u)
    BY <1>1, <1>5, EraseFromBothMaps DEF lowest
  <2>2. TrimInv'
    BY <1>0, <1>1, <1>4, <1>5, <2>1 DEF TrimInv
  <2>. QED  BY <1>0, <1>1, <1>2, <1>3, <2>1, <2>2, DiskUntouched DEF IInv
<1>6. CASE ~IsFull(t) /\ UNCHANGED maps /\ pc'[t] \in {"idle", "open"}
  <2>1. \A u \in Threads : Top(u)' = Top(u)
    BY <1>6 DEF maps, Top
  <2>2. MapsInv'
    BY <1>0, <1>1, <1>6, <2>1 DEF MapsInv, maps
  <2>3. Cardinality(DOMAIN Top(t).count) <= TopSize
    <3>1. Cardinality(DOMAIN Top(t).count) \in Nat
      BY <1>0, FS_CardinalityType DEF MapsInv, Sound
    <3>2. ~(Cardinality(DOMAIN Top(t).count) > TopSize)
      BY <1>6 DEF IsFull, Top
    <3>. QED  BY <3>1, <3>2, BoundsAssumption
  <2>4. TrimInv'
    BY <1>0, <1>1, <1>4, <1>6, <2>1, <2>3 DEF TrimInv
  <2>. QED  BY <1>0, <1>1, <1>2, <1>3, <2>1, <2>2, <2>4, DiskUntouched DEF IInv
<1>. QED  BY <1>5, <1>6, <1>0 DEF Trim, Goto, RestInv

\* Steps of a dump leave the maps and the clock as they are.
LEMMA MapsUntouched ==
    ASSUME MapsInv, RestInv, TrimInv, UNCHANGED <<maps, store_clock, caught>>,
           overlap => overlap', NEW t \in Threads,
           \A u \in Threads \ {t} : pc'[u] = pc[u],
           pc'[t] = "idle" \/ (pc[t] \in {"open", "write", "write_more"}
                               /\ pc'[t] \in {"write", "write_more", "rename"})
    PROVE  MapsInv' /\ TrimInv' /\ \A u \in Threads : Top(u)' = Top(u)
<1>1. \A u \in Threads : Top(u)' = Top(u)
  BY DEF maps, Top
<1>2. MapsInv'
  BY <1>1 DEF MapsInv, maps
<1>3. TrimInv'
  BY <1>1 DEF TrimInv
<1>. QED  BY <1>1, <1>2, <1>3

LEMMA OpenTemporaryStep ==
    ASSUME IInv, NEW t \in Threads, OpenTemporary(t)
    PROVE  IInv'
<1>0. MapsInv /\ FileInv /\ OutInv /\ TrimInv /\ RestInv
  BY DEF IInv
<1>1. /\ pc[t] = "open" /\ pc'[t] = "write" /\ \A u \in Threads \ {t} : pc'[u] = pc[u]
      /\ UNCHANGED <<maps, store_clock, caught>>
      /\ overlap' = (overlap \/ \E u \in Threads : UsesTemporary(u))
  BY <1>0 DEF OpenTemporary, Goto, RestInv
<1>2. RestInv'
  BY <1>0, <1>1 DEF RestInv, OpenTemporary, Goto
<1>3. MapsInv' /\ TrimInv' /\ \A u \in Threads : Top(u)' = Top(u)
  BY <1>0, <1>1, MapsUntouched
<1>4. /\ file'[Temporary] = NoTop /\ \A path \in Threads : file'[path] = file[path]
      /\ out'[t] = Temporary /\ \A u \in Threads \ {t} : out'[u] = out[u]
      /\ out' \in [Threads -> Paths \cup {NULL}]
  BY <1>0, BoundsAssumption DEF OpenTemporary, FileInv, OutInv, Paths
<1>5. NoTop \in Messages /\ Sound(NoTop)
  BY NoTopIsSound DEF Sound
<1>6. FileInv'
  <2>1. file' \in [Paths -> Pieces \cup Messages]
    BY <1>0, <1>5 DEF OpenTemporary, FileInv
  <2>. QED  BY <1>0, <1>1, <1>4, <1>5, <2>1 DEF FileInv, Paths
<1>7. OutInv'
  <2>1. ASSUME NEW u \in Threads, out'[u] # NULL
        PROVE  Writes(u)'
    <3>1. CASE u = t
      BY <1>1, <3>1 DEF Writes
    <3>2. CASE u # t
      BY <1>0, <1>1, <1>4, <2>1, <3>2 DEF OutInv, Writes
    <3>. QED  BY <3>1, <3>2
  <2>2. ASSUME ~overlap', NEW u \in Threads, u # t
        PROVE  pc'[u] \notin {"write", "write_more", "rename"}
    BY <1>1, <2>2 DEF UsesTemporary
  <2>. QED  BY <1>1, <1>4, <2>1, <2>2 DEF OutInv, UsesTemporary, Writes
<1>. QED  BY <1>2, <1>3, <1>6, <1>7 DEF IInv

LEMMA SerializeToOstreamStep ==
    ASSUME IInv, NEW t \in Threads, SerializeToOstream(t)
    PROVE  IInv'
<1>0. MapsInv /\ FileInv /\ OutInv /\ TrimInv /\ RestInv
  BY DEF IInv
<1>1. /\ pc[t] \in {"write", "write_more"} /\ pc'[t] \in {"write_more", "rename"}
      /\ \A u \in Threads \ {t} : pc'[u] = pc[u]
      /\ UNCHANGED <<maps, store_clock, caught, overlap>>
      /\ out'[t] = (IF pc'[t] = "rename" THEN NULL ELSE out[t])
      /\ \A u \in Threads \ {t} : out'[u] = out[u]
      /\ out' \in [Threads -> Paths \cup {NULL}]
  BY <1>0 DEF SerializeToOstream, RestInv, OutInv
<1>2. RestInv'
  BY <1>0, <1>1 DEF RestInv, SerializeToOstream
<1>3. MapsInv' /\ TrimInv' /\ \A u \in Threads : Top(u)' = Top(u)
  BY <1>0, <1>1, MapsUntouched
<1>. DEFINE new == IF pc'[t] = "rename" THEN Top(t) ELSE Part(t)
<1>4. CASE out[t] = NULL
  <2>1. overlap /\ file' = file
    BY <1>0, <1>1, <1>4, BoundsAssumption DEF OutInv, Writes, SerializeToOstream
  <2>2. FileInv'
    BY <1>0, <1>1, <2>1 DEF FileInv
  <2>3. \A u \in Threads : out'[u] # NULL => Writes(u)'
    BY <1>0, <1>1, <1>4 DEF OutInv, Writes
  <2>4. OutInv'
    BY <1>1, <2>1, <2>3 DEF OutInv
  <2>. QED  BY <1>2, <1>3, <2>2, <2>4 DEF IInv
<1>5. CASE out[t] # NULL
  <2>1. PICK contents \in {new, Mixed} :
          /\ file' = [file EXCEPT ![out[t]] = contents]
          /\ file[out[t]] = (IF pc[t] = "write" THEN NoTop ELSE Part(t)) => contents = new
    <3>1. pc' = [pc EXCEPT ![t] = "rename"] => pc'[t] = "rename"
      BY <1>0 DEF RestInv
    <3>2. pc' = [pc EXCEPT ![t] = "write_more"] => pc'[t] = "write_more"
      BY <1>0 DEF RestInv
    <3>. QED  BY <1>5, <3>1, <3>2 DEF SerializeToOstream
  <2>2. Sound(Top(t)) /\ (overlap \/ SameKeys(Top(t))) /\ out[t] \in Paths
    BY <1>0, <1>5 DEF MapsInv, OutInv
  <2>3. contents \in Pieces \/ Sound(contents)
    BY <2>1, <2>2, PartIsPiece
  <2>4. ~overlap => out[t] = Temporary /\ contents = new
    BY <1>0, <1>1, <2>1 DEF OutInv, Writes
  <2>5. /\ file'[out[t]] = contents
        /\ \A path \in Paths \ {out[t]} : file'[path] = file[path]
        /\ file' \in [Paths -> Pieces \cup Messages]
    BY <1>0, <2>1, <2>2, <2>3 DEF FileInv, Sound
  <2>6. FileInv'
    <3>1. \A path \in Paths : file'[path] \in Pieces \/ Sound(file'[path])
      BY <1>0, <2>3, <2>5 DEF FileInv
    <3>2. ASSUME ~overlap', NEW u \in Threads PROVE file'[u] = file[u]
      BY <1>1, <2>4, <2>5, <3>2, BoundsAssumption DEF Paths
    <3>. QED  BY <1>0, <1>1, <2>5, <3>1, <3>2 DEF FileInv
  <2>7. OutInv'
    <3>1. ASSUME NEW u \in Threads, out'[u] # NULL
          PROVE  Writes(u)'
      BY <1>0, <1>1, <3>1 DEF OutInv, Writes
    <3>2. ASSUME ~overlap', NEW u \in Threads, u # t
          PROVE  pc'[u] \notin {"write", "write_more", "rename"}
      BY <1>0, <1>1, <3>2 DEF OutInv, UsesTemporary
    <3>3. ~overlap' => file'[Temporary] = new
      BY <1>1, <2>4, <2>5
    <3>4. Part(t)' = Part(t) /\ Top(t)' = Top(t)
      BY <1>3 DEF Part
    <3>. QED  BY <1>1, <2>4, <3>1, <3>2, <3>3, <3>4 DEF OutInv, UsesTemporary, Writes
  <2>. QED  BY <1>2, <1>3, <2>6, <2>7 DEF IInv
<1>. QED  BY <1>4, <1>5

LEMMA RenameStep ==
    ASSUME IInv, NEW t \in Threads, Rename(t)
    PROVE  IInv'
<1>0. MapsInv /\ FileInv /\ OutInv /\ TrimInv /\ RestInv
  BY DEF IInv
<1>1. /\ pc[t] = "rename" /\ pc'[t] = "idle" /\ \A u \in Threads \ {t} : pc'[u] = pc[u]
      /\ UNCHANGED <<maps, store_clock, caught, overlap>>
      /\ \A u \in Threads : out'[u] = Moved(t, out[u])
      /\ out' \in [Threads -> Paths \cup {NULL}]
  BY <1>0 DEF Rename, Goto, RestInv, OutInv, Moved, Paths
<1>2. RestInv'
  BY <1>0, <1>1 DEF RestInv, Rename, Goto
<1>3. MapsInv' /\ TrimInv' /\ \A u \in Threads : Top(u)' = Top(u)
  BY <1>0, <1>1, MapsUntouched
<1>4. /\ file'[t] = file[Temporary] /\ file'[Temporary] = NoFile
      /\ \A path \in Threads \ {t} : file'[path] = file[path]
      /\ file' \in [Paths -> Pieces \cup Messages]
  BY <1>0, PartIsPiece, BoundsAssumption DEF Rename, FileInv, Paths
<1>5. FileInv'
  <2>1. \A path \in Paths : file'[path] \in Pieces \/ Sound(file'[path])
    BY <1>0, <1>4, PartIsPiece DEF FileInv, Paths
  <2>2. ASSUME ~overlap', NEW u \in Threads PROVE Sound(file'[u]) /\ SameKeys(file'[u])
    <3>1. CASE u = t
      <4>1. file'[t] = Top(t)
        BY <1>0, <1>1, <1>4, <2>2 DEF OutInv
      <4>. QED  BY <1>0, <1>1, <2>2, <3>1, <4>1 DEF MapsInv
    <3>2. CASE u # t
      BY <1>0, <1>1, <1>4, <2>2, <3>2 DEF FileInv
    <3>. QED  BY <3>1, <3>2
  <2>. QED  BY <1>4, <2>1, <2>2 DEF FileInv
<1>6. OutInv'
  <2>1. ASSUME NEW u \in Threads, out'[u] # NULL
        PROVE  Writes(u)'
    <3>1. out[u] # NULL
      BY <1>1, <2>1, BoundsAssumption DEF Moved
    <3>2. Writes(u) /\ u # t
      BY <1>0, <1>1, <3>1 DEF OutInv, Writes
    <3>. QED  BY <1>1, <3>2 DEF Writes
  <2>2. ASSUME ~overlap', NEW u \in Threads
        PROVE  pc'[u] \notin {"write", "write_more", "rename"}
    BY <1>0, <1>1, <2>2 DEF OutInv, UsesTemporary
  <2>. QED  BY <1>1, <2>1, <2>2 DEF OutInv, UsesTemporary, Writes
<1>. QED  BY <1>2, <1>3, <1>5, <1>6 DEF IInv

\* A crash leaves only the files.
LEMMA RestartStep ==
    ASSUME IInv, Restart
    PROVE  IInv'
<1>0. FileInv /\ RestInv
  BY DEF IInv
<1>1. MapsInv'
  <2>1. \A t \in Threads : Top(t)' = NoTop
    BY DEF Restart, Top, NoTop, Empty
  <2>. QED  BY <2>1, NoTopIsSound, EmptyIsRankedMap DEF Restart, MapsInv
<1>2. FileInv'
  BY <1>0 DEF Restart, FileInv
<1>3. OutInv' /\ TrimInv'
  BY DEF Restart, OutInv, TrimInv, UsesTemporary, Writes
<1>4. RestInv'
  <2>1. 0 \in 0 .. MaxTime
    BY BoundsAssumption
  <2>. QED  BY <1>0, <2>1 DEF Restart, RestInv
<1>. QED  BY <1>1, <1>2, <1>3, <1>4 DEF IInv

THEOREM Invariance == Spec => []IInv
<1>1. IInv /\ [Next]_vars => IInv'
  <2>. SUFFICES ASSUME IInv, [Next]_vars PROVE IInv'
    OBVIOUS
  <2>1. ASSUME NEW t \in Threads, ThreadStep(t) PROVE IInv'
    BY <2>1, SetPathStep, CatchExceptionStep, RemoveOldStep, TrimStep, OpenTemporaryStep,
       SerializeToOstreamStep, RenameStep, RestartStep DEF ThreadStep, Terminate
  <2>2. CASE Crash
    BY <2>2, RestartStep DEF Crash
  <2>3. CASE UNCHANGED vars
    BY <2>3 DEF vars, maps, disk, IInv, MapsInv, FileInv, OutInv, TrimInv, RestInv, Top,
                UsesTemporary, Writes
  <2>. QED  BY <2>1, <2>2, <2>3 DEF Next
<1>. QED  BY <1>1, InitIInv, PTL DEF Spec
----------------------------------------------------------------------------
(* Theorems *)

\* What a thread keeps is a top, and what each file holds is one or pieces of some:
\* restoring, catching, dumping and crashing keep it so.
THEOREM TypeCorrect == Spec => []TypeOK
<1>1. IInv => TypeOK
  <2>. SUFFICES ASSUME IInv PROVE TypeOK
    OBVIOUS
  <2>1. ASSUME NEW t \in Threads
        PROVE  /\ IsMessage(Top(t))
               /\ store_clock[t] \in 0 .. MaxTime
               /\ out[t] \in Threads \cup {Temporary, NULL}
               /\ ~overlap => 0 \notin Range(Top(t).count)
    <3>1. ~overlap => 0 \notin Range(Top(t).count)
      BY <2>1 DEF IInv, MapsInv, SameKeys, Range
    <3>. QED  BY <2>1, <3>1, SoundIsMessage DEF IInv, MapsInv, OutInv, RestInv, Paths
  <2>2. \A path \in Threads \cup {Temporary} :
          file[path] \in Pieces \/ IsMessage(file[path])
    BY SoundIsMessage DEF IInv, FileInv, Paths
  <2>. QED  BY <2>1, <2>2 DEF IInv, RestInv, TypeOK
<1>. QED  BY <1>1, Invariance, PTL

\* The two containers of a ranked map never drift apart; and as long as no two dumps
\* have overlapped, an exception is counted if and only if it has a time to age by, in
\* memory and in the file, whichever blocks a crash has cut off.
THEOREM KeysAgreeAlways == Spec => []KeysAgree
<1>1. IInv => KeysAgree
  <2>. SUFFICES ASSUME IInv, NEW t \in Threads
                PROVE  /\ Agree(exception_count[t]) /\ Agree(exception_last_time[t])
                       /\ ~overlap => /\ file[t] \notin Pieces
                                      /\ \A top \in {Top(t), file[t]} :
                                           DOMAIN top.count = DOMAIN top.last_time
    BY DEF KeysAgree
  <2>1. Agree(exception_count[t]) /\ Agree(exception_last_time[t])
    BY DEF IInv, MapsInv, RankedMaps
  <2>2. ASSUME ~overlap, NEW top \in {Top(t), file[t]} PROVE SameKeys(top)
    BY <2>2 DEF IInv, MapsInv, FileInv
  <2>3. ~overlap => file[t] \notin Pieces
    BY MessagesAreWhole DEF IInv, FileInv, Sound
  <2>. QED  BY <2>1, <2>2, <2>3 DEF SameKeys
<1>. QED  BY <1>1, Invariance, PTL

\* RemoveOld never takes the lowest of no exceptions.
THEOREM YoungestAlwaysStays == Spec => []YoungestStays
<1>1. IInv => YoungestStays
  <2>. SUFFICES ASSUME IInv, NEW t \in Threads, pc[t] = "remove_old"
                PROVE  \E entry \in exception_last_time[t].value_key : ~IsOld(t, entry[1])
    BY DEF YoungestStays
  <2>1. PICK k \in DOMAIN Top(t).last_time : Top(t).last_time[k] = store_clock[t]
    BY DEF IInv, TrimInv
  <2>2. k \in DOMAIN exception_last_time[t].key_value
        /\ exception_last_time[t].key_value[k] = store_clock[t]
    BY <2>1 DEF Top
  <2>3. <<store_clock[t], k>> \in exception_last_time[t].value_key
    BY <2>2 DEF IInv, MapsInv, RankedMaps, Agree
  <2>4. ~IsOld(t, store_clock[t])
    BY BoundsAssumption DEF IInv, RestInv, IsOld
  <2>. QED  BY <2>3, <2>4
<1>. QED  BY <1>1, Invariance, PTL

\* A thread never sets out to save more than the top, or an exception that is old.
THEOREM SavedAlwaysTrimmed == Spec => []SavedIsTrimmed
<1>1. IInv => SavedIsTrimmed
  BY DEF IInv, TrimInv, SavedIsTrimmed
<1>. QED  BY <1>1, Invariance, PTL

\* Dumps that do not overlap change a thread's file only to its whole present top.
THEOREM FilesAreWholeTops == Spec => FileIsWholeTop
<1>. DEFINE Whole(t) == (file'[t] # file[t] => file'[t] = Top(t)) /\ ~Terminate(t)
<1>1. ASSUME IInv, [Next]_vars, ~overlap, NEW t \in Threads PROVE Whole(t)
  <2>0. \A u \in Threads : ~Terminate(u)
    BY <1>1, MessagesAreWhole, PartIsPiece DEF IInv, MapsInv, OutInv, Sound, Terminate
  <2>1. CASE file' = file
    BY <2>0, <2>1
  <2>2. ASSUME NEW u \in Threads, OpenTemporary(u) PROVE file'[t] = file[t]
    BY <1>1, <2>2, BoundsAssumption DEF OpenTemporary, IInv, FileInv, Paths
  <2>3. ASSUME NEW u \in Threads, SerializeToOstream(u) PROVE file'[t] = file[t]
    BY <1>1, <2>3, BoundsAssumption DEF SerializeToOstream, IInv, OutInv, Writes, FileInv, Paths
  <2>4. ASSUME NEW u \in Threads, Rename(u)
        PROVE  file'[t] # file[t] => file'[t] = Top(t)
    <3>1. file[Temporary] = Top(u)
      BY <1>1, <2>4 DEF Rename, Goto, IInv, OutInv
    <3>. QED  BY <1>1, <2>4, <3>1, BoundsAssumption DEF Rename, IInv, FileInv, Paths
  <2>5. \/ file' = file
        \/ \E u \in Threads : OpenTemporary(u) \/ SerializeToOstream(u) \/ Rename(u)
    BY <1>1, <2>0 DEF Next, ThreadStep, Crash, Restart, SetPath, CatchException, RemoveOld,
                      Trim, vars, disk
  <2>. QED  BY <2>0, <2>1, <2>2, <2>3, <2>4, <2>5
<1>2. IInv /\ [Next]_vars =>
        [~overlap => \A t \in Threads : /\ file'[t] # file[t] => file'[t] = Top(t)
                                        /\ ~Terminate(t)]_vars
  BY <1>1
<1>. QED  BY <1>2, Invariance, PTL DEF Spec, FileIsWholeTop
=============================================================================
