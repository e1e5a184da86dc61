---------------------------- MODULE ThreadProofs ----------------------------
(***************************************************************************)
(* What isRunning() and the registry can be relied on for, proved for any  *)
(* number of Thread objects and thread ids.                                *)
(***************************************************************************)
EXTENDS Thread, TLAPS

-----------------------------------------------------------------------------
(* Types, and who owns a thread.                                           *)

\* i is the thread o can join, or the one start() is about to store in o.
Owns(o, i) ==
  \/ mThreadMetaData[o] = i
  \/ starting[o].at = "assign" /\ starting[o].id = i

\* A thread that has an owner has no other one, is not detached, and its id
\* is not given to another thread.
Ownership ==
  /\ \A o \in Objects : \A i \in Ids : Owns(o, i) => pc[i] # "free" /\ i \notin detached
  /\ \A o, p \in Objects : \A i \in Ids : Owns(o, i) /\ Owns(p, i) => o = p
  /\ \A i \in detached : pc[i] # "free"

\* What start() has done so far.
StartSound ==
  \A o \in Objects :
    /\ starting[o].at \in {"none", "create"} <=> starting[o].id = Null
    /\ starting[o].at \in {"create", "assign"} => mThreadMetaData[o] \notin Ids
    /\ starting[o].at \in {"setId", "register"} => mThreadMetaData[o] = starting[o].id
    /\ starting[o].at = "register" => mId[o] = starting[o].id
    /\ starting[o].id # Null => body[starting[o].id] = o

Sound == TypeOK /\ Ownership /\ StartSound

LEMMA SoundInit == Init => Sound
BY NamesAssumption, EmptyAssumption
   DEF Init, Sound, TypeOK, Ownership, StartSound, Owns, NotStarting, IsJoinable

LEMMA SoundStep == Sound /\ [Next]_vars => Sound'
<1> SUFFICES ASSUME Sound, [Next]_vars PROVE Sound'
  OBVIOUS
<1> USE NamesAssumption, EmptyAssumption
    DEF Sound, TypeOK, Ownership, StartSound, Owns, IsJoinable, NotStarting, Free, objectVars,
        threadVars
<1>1. ASSUME NEW o \in Objects, Start(o) PROVE Sound'
  BY <1>1 DEF Start, StartGoto, Unregister
<1>2. ASSUME NEW o \in Objects, NEW i \in Ids, Create(o, i) PROVE Sound'
  <2>1. TypeOK'
    BY <1>2 DEF Create
  <2>2. Ownership'
    BY <1>2 DEF Create
  <2>3. StartSound'
    BY <1>2 DEF Create
  <2> QED
    BY <2>1, <2>2, <2>3
<1>3. ASSUME NEW o \in Objects, Assign(o) PROVE Sound'
  <2>1. TypeOK'
    BY <1>3 DEF Assign, StartGoto
  <2>2. Ownership'
    BY <1>3 DEF Assign, StartGoto
  <2>3. StartSound'
    BY <1>3 DEF Assign, StartGoto
  <2> QED
    BY <2>1, <2>2, <2>3
<1>4. ASSUME NEW o \in Objects, SetId(o) PROVE Sound'
  <2>1. /\ starting[o].at = "setId"
        /\ starting[o].id \in Ids /\ mThreadMetaData[o] = starting[o].id
    BY <1>4 DEF SetId
  <2>2. /\ starting' \in [Objects -> [at : {"none", "create", "assign", "setId", "register"},
                                      id : Ids \union {Null}]]
        /\ starting'[o].at = "register" /\ starting'[o].id = starting[o].id
        /\ \A p \in Objects : p # o => starting'[p] = starting[p]
    BY <1>4 DEF SetId, StartGoto
  <2>3. /\ mThreadMetaData' = mThreadMetaData /\ UNCHANGED <<threadVars, destroyed, misused>>
        /\ mIsRunning' = mIsRunning /\ kThreads' = kThreads
    BY <1>4 DEF SetId
  <2>4. /\ mId' \in [Objects -> Ids \union {Null}]
        /\ mId'[o] = mThreadMetaData[o]
        /\ \A p \in Objects : p # o => mId'[p] = mId[p]
    BY <1>4, <2>1 DEF SetId
  <2>5. TypeOK'
    BY <2>2, <2>3, <2>4
  <2>6. \A p \in Objects : \A i \in Ids : Owns(p, i)' <=> Owns(p, i)
    BY <2>1, <2>2, <2>3
  <2>7. Ownership'
    BY <2>3, <2>6
  <2>8. ASSUME NEW p \in Objects
        PROVE  /\ starting'[p].at \in {"none", "create"} <=> starting'[p].id = Null
               /\ starting'[p].at \in {"create", "assign"} => mThreadMetaData'[p] \notin Ids
               /\ starting'[p].at \in {"setId", "register"} =>
                    mThreadMetaData'[p] = starting'[p].id
               /\ starting'[p].at = "register" => mId'[p] = starting'[p].id
               /\ starting'[p].id # Null => body'[starting'[p].id] = p
    <3>1. CASE p = o
      BY <3>1, <2>1, <2>2, <2>3, <2>4
    <3>2. CASE p # o
      BY <3>2, <2>2, <2>3, <2>4
    <3> QED
      BY <3>1, <3>2
  <2> QED
    BY <2>5, <2>7, <2>8
<1>5. ASSUME NEW o \in Objects, Register(o) PROVE Sound'
  BY <1>5 DEF Register
<1>6. ASSUME NEW o \in Objects, Join(o) PROVE Sound'
  BY <1>6 DEF Join
<1>7. ASSUME NEW o \in Objects, Detach(o) PROVE Sound'
  BY <1>7 DEF Detach
<1>8. ASSUME NEW o \in Objects, Destroy(o) PROVE Sound'
  BY <1>8 DEF Destroy, Unregister
<1>9. ASSUME NEW o \in Objects, NEW p \in Objects, Swap(o, p) PROVE Sound'
  <2>1. TypeOK'
    <3>1. /\ mThreadMetaData' \in [Objects -> Ids \union {Null, Empty}]
          /\ mId' \in [Objects -> Ids \union {Null}]
      <4>1. mThreadMetaData' \in [Objects -> Ids \union {Null, Empty}]
        BY <1>9 DEF Swap, Exchange
      <4>2. mId' \in [Objects -> Ids \union {Null}]
        BY <1>9 DEF Swap, Exchange
      <4> QED
        BY <4>1, <4>2
    <3>2. /\ mIsRunning' \in [Objects -> BOOLEAN] /\ misused' \subseteq Objects
      BY <1>9 DEF Swap
    <3>3. \A q \in Objects : mThreadMetaData'[q] \in Ids => pc[mThreadMetaData'[q]] # "free"
      BY <1>9 DEF Swap, Exchange
    <3> QED
      BY <1>9, <3>1, <3>2, <3>3 DEF Swap
  <2>2. Ownership'
    BY <1>9 DEF Swap, Exchange
  <2>3. StartSound'
    <3>1. /\ starting' = starting /\ body' = body
          /\ starting[o].at = "none" /\ starting[p].at = "none"
      BY <1>9 DEF Swap
    <3>2. \A q \in Objects \ {o, p} :
            mThreadMetaData'[q] = mThreadMetaData[q] /\ mId'[q] = mId[q]
      <4>1. /\ mThreadMetaData' = Exchange(mThreadMetaData, o, p)
            /\ mId' = Exchange(mId, o, p)
        BY <1>9 DEF Swap
      <4> QED
        BY <4>1 DEF Exchange
    <3> QED
      BY <3>1, <3>2
  <2> QED
    BY <2>1, <2>2, <2>3
<1>10. ASSUME NEW i \in Ids, Begin(i) \/ Leave(i) PROVE Sound'
  <2>1. TypeOK'
    <3>1. CASE Begin(i)
      <4>1. mIsRunning' \in [Objects -> BOOLEAN]
        BY <3>1 DEF Begin, SetsRunning
      <4> QED
        BY <3>1, <4>1 DEF Begin, SetsRunning, Goto
    <3>2. CASE Leave(i)
      <4>1. mIsRunning' \in [Objects -> BOOLEAN]
        BY <3>2 DEF Leave, SetsRunning
      <4> QED
        BY <3>2, <4>1 DEF Leave, SetsRunning, Goto
    <3> QED
      BY <1>10, <3>1, <3>2
  <2>2. Ownership' /\ StartSound'
    BY <1>10 DEF Begin, Leave, SetsRunning, Goto
  <2> QED
    BY <2>1, <2>2
<1>11. ASSUME NEW i \in Ids, SetName(i) \/ SetPriority(i) PROVE Sound'
  <2>1. TypeOK'
    <3>1. CASE SetName(i)
      BY <3>1 DEF SetName, Applies, Goto
    <3>2. CASE SetPriority(i)
      BY <3>2 DEF SetPriority, Applies, Goto
    <3> QED
      BY <1>11, <3>1, <3>2
  <2>2. Ownership' /\ StartSound'
    BY <1>11 DEF SetName, SetPriority, Applies, Goto
  <2> QED
    BY <2>1, <2>2
<1>12. ASSUME NEW i \in Ids, MakeMetaObject(i) PROVE Sound'
  BY <1>12 DEF MakeMetaObject
<1>13. ASSUME NEW i \in Ids, End(i) PROVE Sound'
  BY <1>13 DEF End, Unregister, Goto
<1>14. CASE UNCHANGED vars
  BY <1>14 DEF vars
<1> QED
  BY <1>1, <1>2, <1>3, <1>4, <1>5, <1>6, <1>7, <1>8, <1>9, <1>10, <1>11, <1>12, <1>13,
     <1>14 DEF Next

LEMMA Soundness == Spec => []Sound
BY SoundInit, SoundStep, PTL DEF Spec

\* The objects, the registry and the threads keep their types, and a thread
\* that can be joined has not given up its id.
THEOREM TypeCorrect == Spec => []TypeOK
<1>1. Sound => TypeOK
  BY DEF Sound
<1> QED
  BY <1>1, Soundness, PTL

-----------------------------------------------------------------------------
(* The registry.                                                           *)

\* A thread has a metaObject only from the time it makes one to its end.
MetaSound == NoDeadMetaObject /\ \A i \in hasMeta : pc[i] \in {"run", "exit"}

LEMMA MetaInit == Init => MetaSound
BY NamesAssumption DEF Init, MetaSound, NoDeadMetaObject

LEMMA MetaStep == Sound /\ MetaSound /\ [Next]_vars => MetaSound'
<1> SUFFICES ASSUME Sound, MetaSound, [Next]_vars PROVE MetaSound'
  OBVIOUS
<1> USE NamesAssumption DEF Sound, TypeOK, MetaSound, NoDeadMetaObject, objectVars, threadVars
<1>1. ASSUME NEW o \in Objects, Start(o) \/ Destroy(o) PROVE MetaSound'
  BY <1>1 DEF Start, Destroy, Unregister
<1>2. ASSUME NEW o \in Objects, NEW i \in Ids, Create(o, i) PROVE MetaSound'
  BY <1>2 DEF Create
<1>3. ASSUME NEW o \in Objects, Register(o) PROVE MetaSound'
  BY <1>3 DEF Register
<1>4. ASSUME NEW o \in Objects, Join(o) \/ Detach(o) PROVE MetaSound'
  <2>1. /\ kThreads' = kThreads /\ hasMeta' = hasMeta
        /\ \A i \in Ids : pc'[i] = pc[i] \/ (pc[i] = "ended" /\ pc'[i] = "free")
    <3>1. CASE Join(o)
      BY <3>1 DEF Join, IsJoinable
    <3>2. CASE Detach(o)
      BY <3>2 DEF Detach, IsJoinable
    <3> QED
      BY <1>4, <3>1, <3>2
  <2> QED
    BY <2>1
<1>5. ASSUME NEW o \in Objects, NEW p \in Objects, Assign(o) \/ SetId(o) \/ Swap(o, p)
      PROVE MetaSound'
  BY <1>5 DEF Assign, SetId, Swap
<1>6. ASSUME NEW i \in Ids, Begin(i) \/ Leave(i) PROVE MetaSound'
  <2>1. CASE Begin(i)
    BY <2>1 DEF Begin, SetsRunning, Goto
  <2>2. CASE Leave(i)
    BY <2>2 DEF Leave, SetsRunning, Goto
  <2> QED
    BY <1>6, <2>1, <2>2
<1>7. ASSUME NEW i \in Ids, SetName(i) \/ SetPriority(i) PROVE MetaSound'
  BY <1>7 DEF SetName, SetPriority, Applies, Goto
<1>8. ASSUME NEW i \in Ids, MakeMetaObject(i) PROVE MetaSound'
  BY <1>8 DEF MakeMetaObject
<1>9. ASSUME NEW i \in Ids, End(i) PROVE MetaSound'
  BY <1>9 DEF End, Unregister, Goto
<1>10. CASE UNCHANGED vars
  BY <1>10 DEF vars
<1> QED
  BY <1>1, <1>2, <1>3, <1>4, <1>5, <1>6, <1>7, <1>8, <1>9, <1>10 DEF Next

\* kThreads never leads to a metaObject whose thread has ended.
THEOREM RegistryIsAlive == Spec => []NoDeadMetaObject
<1>1. MetaSound => NoDeadMetaObject
  BY DEF MetaSound
<1> QED
  BY <1>1, MetaInit, MetaStep, SoundInit, SoundStep, PTL DEF Spec

-----------------------------------------------------------------------------
(* A thread finds its own object.                                          *)

LEMMA FindsInit == Init => FindsItself
BY DEF Init, FindsItself, InRunImpl

LEMMA FindsStep == Sound /\ FindsItself /\ [Next]_vars => FindsItself'
<1> SUFFICES ASSUME Sound, FindsItself, [Next]_vars,
                    NEW o \in Objects, NEW i \in Ids,
                    (i \in InRunImpl(o))', starting'[o].id # i
             PROVE  kThreads'[i] \in {o, i, Null}
  BY DEF FindsItself, InRunImpl
<1> USE NamesAssumption DEF Sound, TypeOK, FindsItself, InRunImpl, objectVars, threadVars
<1> DEFINE Found == kThreads'[i] \in {o, i, Null}
<1>1. ASSUME NEW p \in Objects, Start(p) \/ Destroy(p) PROVE Found
  BY <1>1 DEF Start, Destroy, Unregister, StartGoto, Free, NotStarting
<1>2. ASSUME NEW p \in Objects, NEW j \in Ids, Create(p, j) PROVE Found
  <2>1. CASE i = j
    <3>1. body'[i] = p /\ starting'[p].id = i
      BY <1>2, <2>1 DEF Create
    <3> QED
      BY <3>1
  <2>2. CASE i # j
    <3>1. body'[i] = body[i] /\ pc'[i] = pc[i] /\ kThreads' = kThreads
      BY <1>2, <2>2 DEF Create
    <3>2. starting[o].id # i
      BY <1>2, <2>2 DEF Create, StartSound
    <3> QED
      BY <3>1, <3>2
  <2> QED
    BY <2>1, <2>2
<1>3. ASSUME NEW p \in Objects, Register(p) PROVE Found
  <2>1. mId[p] = starting[p].id /\ body[mId[p]] = p /\ mId[p] \in Ids
    BY <1>3 DEF Register, StartSound
  <2>2. CASE mId[p] = i
    BY <1>3, <2>1, <2>2 DEF Register
  <2>3. CASE mId[p] # i
    BY <1>3, <2>1, <2>3 DEF Register
  <2> QED
    BY <2>2, <2>3
<1>4. ASSUME NEW p \in Objects, Join(p) \/ Detach(p) PROVE Found
  BY <1>4 DEF Join, Detach, IsJoinable
<1>5. ASSUME NEW p \in Objects, Assign(p) \/ SetId(p) PROVE Found
  BY <1>5 DEF Assign, SetId, StartGoto
<1>6. ASSUME NEW p \in Objects, NEW q \in Objects, Swap(p, q) PROVE Found
  BY <1>6 DEF Swap
<1>7. ASSUME NEW j \in Ids, Begin(j) \/ Leave(j) PROVE Found
  BY <1>7 DEF Begin, Leave, SetsRunning, Goto
<1>8. ASSUME NEW j \in Ids, SetName(j) \/ SetPriority(j) PROVE Found
  BY <1>8 DEF SetName, SetPriority, Applies, Goto
<1>9. ASSUME NEW j \in Ids, MakeMetaObject(j) PROVE Found
  BY <1>9 DEF MakeMetaObject
<1>10. ASSUME NEW j \in Ids, End(j) PROVE Found
  BY <1>10 DEF End, Unregister, Goto
<1>11. CASE UNCHANGED vars
  BY <1>11 DEF vars
<1> QED
  BY <1>1, <1>2, <1>3, <1>4, <1>5, <1>6, <1>7, <1>8, <1>9, <1>10, <1>11 DEF Next

\* The entry of a thread that is in runImpl is its object or its metaObject,
\* if there is one and start() has returned: no other object's calls put
\* another one there, although ids are used again and entries go stale.
THEOREM ThreadFindsItself == Spec => []FindsItself
BY FindsInit, FindsStep, SoundInit, SoundStep, PTL DEF Spec

-----------------------------------------------------------------------------
(* isRunning().                                                            *)

\* The flag of o is set while a thread is past the beginning of o's runImpl;
\* no more than one is in it, and before it begins somebody can join it,
\* unless it was detached.
FlagSound(o) ==
  /\ \A i, j \in InRunImpl(o) : i = j
  /\ mIsRunning[o] <=> \E i \in InRunImpl(o) : pc[i] # "begin"
  /\ starting[o].at = "create" => InRunImpl(o) = {}
  /\ \A i \in InRunImpl(o) : pc[i] = "begin" => Owns(o, i) \/ i \in detached

FlagsSound == \A o \in Objects \ misused : FlagSound(o)

\* An object that is gone is not started any more, and threads that are in
\* its runImpl were detached.
GoneSound == (\A o \in destroyed : starting[o].at = "none") /\ NotUsedWhenGone

Used == Sound /\ FlagsSound /\ GoneSound

LEMMA UsedInit == Init => FlagsSound /\ GoneSound
BY DEF Init, FlagsSound, FlagSound, GoneSound, NotUsedWhenGone, InRunImpl, NotStarting

LEMMA FlagsStep == Used /\ [Next]_vars => FlagsSound'
<1> SUFFICES ASSUME Used, [Next]_vars, NEW o \in Objects \ misused' PROVE FlagSound(o)'
  BY DEF FlagsSound
<1>m. o \notin misused
  BY DEF Next, vars, Start, Create, Assign, SetId, Register, Join, Detach, Destroy, Swap, Begin,
         Leave, SetsRunning, SetName, SetPriority, Applies, MakeMetaObject, End
<1>f. FlagSound(o)
  BY <1>m DEF Used, FlagsSound
<1> USE <1>f, <1>m
    DEF Used, Sound, TypeOK, FlagSound, InRunImpl, Owns, objectVars, threadVars
<1>1. ASSUME NEW p \in Objects, Start(p) PROVE FlagSound(o)'
  BY <1>1 DEF Start, StartGoto, Free, NotStarting
<1>2. ASSUME NEW p \in Objects, NEW j \in Ids, Create(p, j) PROVE FlagSound(o)'
  <2>1. CASE p = o
    BY <1>2, <2>1 DEF Create
  <2>2. CASE p # o
    BY <1>2, <2>2 DEF Create
  <2> QED
    BY <2>1, <2>2
<1>3. ASSUME NEW p \in Objects, Assign(p) PROVE FlagSound(o)'
  BY <1>3 DEF Assign, StartGoto, StartSound
<1>4. ASSUME NEW p \in Objects, SetId(p) PROVE FlagSound(o)'
  BY <1>4 DEF SetId, StartGoto
<1>5. ASSUME NEW p \in Objects, Register(p) PROVE FlagSound(o)'
  BY <1>5 DEF Register, NotStarting
<1>6. ASSUME NEW p \in Objects, Join(p) PROVE FlagSound(o)'
  BY <1>6 DEF Join, IsJoinable
<1>7. ASSUME NEW p \in Objects, Detach(p) PROVE FlagSound(o)'
  <2> DEFINE i == mThreadMetaData[p]
  <2>1. /\ i \in Ids /\ detached \subseteq detached'
        /\ body' = body /\ mIsRunning' = mIsRunning /\ starting' = starting
        /\ \A j \in Ids : pc'[j] = pc[j] \/ (pc[j] = "ended" /\ pc'[j] = "free")
    BY <1>7 DEF Detach, IsJoinable
  <2>2. \A j \in Ids : pc'[j] = "begin" /\ Owns(o, j) => Owns(o, j)' \/ j \in detached'
    BY <1>7 DEF Detach
  <2>3. InRunImpl(o)' = InRunImpl(o) /\ \A j \in InRunImpl(o) : pc'[j] = pc[j]
    BY <2>1
  <2> HIDE DEF InRunImpl, Owns
  <2>4. InRunImpl(o) \subseteq Ids
    BY DEF InRunImpl
  <2> QED
    BY <2>1, <2>2, <2>3, <2>4
<1>8. ASSUME NEW p \in Objects, Destroy(p) PROVE FlagSound(o)'
  BY <1>8 DEF Destroy
<1>9. ASSUME NEW p \in Objects, NEW q \in Objects, Swap(p, q) PROVE FlagSound(o)'
  <2>1. CASE o \in {p, q}
    BY <1>9, <2>1 DEF Swap, IsRunning, Free, NotStarting
  <2>2. CASE o \notin {p, q}
    BY <1>9, <2>2 DEF Swap, Exchange
  <2> QED
    BY <2>1, <2>2
<1>10. ASSUME NEW j \in Ids, Begin(j) PROVE FlagSound(o)'
  BY <1>10 DEF Begin, SetsRunning, Goto
<1>11. ASSUME NEW j \in Ids, Leave(j) PROVE FlagSound(o)'
  BY <1>11 DEF Leave, SetsRunning, Goto
<1>12. ASSUME NEW j \in Ids, SetName(j) \/ SetPriority(j) PROVE FlagSound(o)'
  <2>1. /\ body' = body /\ mIsRunning' = mIsRunning /\ starting' = starting
        /\ mThreadMetaData' = mThreadMetaData /\ detached' = detached
        /\ \A k \in Ids \ {j} : pc'[k] = pc[k]
    BY <1>12 DEF SetName, SetPriority, Applies, Goto
  <2>2. pc[j] \in {"setName", "setPriority"} /\ pc'[j] \in {"setPriority", "run"}
    BY <1>12 DEF SetName, SetPriority, Applies, Goto
  <2>3. /\ InRunImpl(o)' = InRunImpl(o)
        /\ \A k \in InRunImpl(o) : pc'[k] = "begin" <=> pc[k] = "begin"
    BY <2>1, <2>2
  <2> HIDE DEF InRunImpl
  <2> QED
    BY <2>1, <2>3
<1>13. ASSUME NEW j \in Ids, MakeMetaObject(j) PROVE FlagSound(o)'
  BY <1>13 DEF MakeMetaObject
<1>14. ASSUME NEW j \in Ids, End(j) PROVE FlagSound(o)'
  BY <1>14 DEF End, Goto
<1>15. CASE UNCHANGED vars
  BY <1>15 DEF vars
<1> QED
  BY <1>1, <1>2, <1>3, <1>4, <1>5, <1>6, <1>7, <1>8, <1>9, <1>10, <1>11, <1>12, <1>13, <1>14,
     <1>15 DEF Next

LEMMA GoneStep == Used /\ [Next]_vars => GoneSound'
<1> SUFFICES ASSUME Used, [Next]_vars, NEW o \in destroyed'
             PROVE  /\ starting'[o].at = "none"
                    /\ o \notin misused' => InRunImpl(o)' \subseteq detached'
  BY DEF GoneSound, NotUsedWhenGone, InRunImpl
<1> USE DEF Used, Sound, TypeOK, GoneSound, NotUsedWhenGone, InRunImpl, objectVars, threadVars,
            Free, NotStarting
<1> DEFINE Kept == /\ starting'[o].at = "none"
                   /\ o \notin misused' => InRunImpl(o)' \subseteq detached'
<1>1. ASSUME NEW p \in Objects, Start(p) PROVE Kept
  BY <1>1 DEF Start, StartGoto
<1>2. ASSUME NEW p \in Objects, NEW j \in Ids, Create(p, j) PROVE Kept
  BY <1>2 DEF Create
<1>3. ASSUME NEW p \in Objects, Assign(p) \/ SetId(p) \/ Register(p) PROVE Kept
  BY <1>3 DEF Assign, SetId, Register, StartGoto
<1>4. ASSUME NEW p \in Objects, Join(p) \/ Detach(p) PROVE Kept
  BY <1>4 DEF Join, Detach, IsJoinable
<1>5. ASSUME NEW p \in Objects, Destroy(p) PROVE Kept
  <2>1. CASE o = p
    <3>1. starting[o].at = "none" /\ ~IsRunning(o)
      BY <1>5, <2>1 DEF Destroy
    <3>2. o \notin misused => InRunImpl(o) \subseteq detached
      <4> SUFFICES ASSUME o \in Objects \ misused, NEW i \in InRunImpl(o) PROVE i \in detached
        BY <1>5, <2>1
      <4>1. FlagSound(o)
        BY DEF FlagsSound
      <4>2. pc[i] = "begin"
        BY <4>1, <3>1 DEF FlagSound, IsRunning
      <4>3. ~Owns(o, i)
        BY <3>1 DEF Owns, IsRunning, IsJoinable
      <4> QED
        BY <4>1, <4>2, <4>3 DEF FlagSound
    <3> QED
      BY <1>5, <3>1, <3>2 DEF Destroy
  <2>2. CASE o # p
    BY <1>5, <2>2 DEF Destroy
  <2> QED
    BY <2>1, <2>2
<1>6. ASSUME NEW p \in Objects, NEW q \in Objects, Swap(p, q) PROVE Kept
  BY <1>6 DEF Swap
<1>7. ASSUME NEW j \in Ids, Begin(j) \/ Leave(j) PROVE Kept
  BY <1>7 DEF Begin, Leave, SetsRunning, Goto
<1>8. ASSUME NEW j \in Ids, SetName(j) \/ SetPriority(j) PROVE Kept
  BY <1>8 DEF SetName, SetPriority, Applies, Goto
<1>9. ASSUME NEW j \in Ids, MakeMetaObject(j) PROVE Kept
  BY <1>9 DEF MakeMetaObject
<1>10. ASSUME NEW j \in Ids, End(j) PROVE Kept
  BY <1>10 DEF End, Goto
<1>11. CASE UNCHANGED vars
  BY <1>11 DEF vars
<1> QED
  BY <1>1, <1>2, <1>3, <1>4, <1>5, <1>6, <1>7, <1>8, <1>9, <1>10, <1>11 DEF Next

LEMMA Usage == Spec => []Used
<1>1. Init => Used
  BY SoundInit, UsedInit DEF Used
<1>2. Used /\ [Next]_vars => Used'
  BY SoundStep, FlagsStep, GoneStep DEF Used
<1> QED
  BY <1>1, <1>2, PTL DEF Spec

\* isRunning() tells whether a thread is in the object's runImpl or can be
\* joined, except for one that was detached before it began.
THEOREM RunningIsKnown == Spec => []IsRunningIsTrue
<1>1. Used => IsRunningIsTrue
  <2> SUFFICES ASSUME Used, NEW o \in Objects \ misused, starting[o].at = "none"
               PROVE  /\ \A i \in InRunImpl(o) :
                           IsRunning(o) \/ (i \in detached /\ pc[i] = "begin")
                      /\ IsRunning(o) => IsJoinable(o) \/ InRunImpl(o) # {}
    BY DEF IsRunningIsTrue
  <2>1. FlagSound(o)
    BY DEF Used, FlagsSound
  <2> QED
    BY <2>1 DEF FlagSound, IsRunning, IsJoinable, Owns, InRunImpl
<1> QED
  BY <1>1, Usage, PTL

\* An object whose user asked isRunning() before destroying it is not used by
\* a thread afterwards, unless the thread was detached.
THEOREM DestroyedIsUnused == Spec => []NotUsedWhenGone
<1>1. Used => NotUsedWhenGone
  BY DEF Used, GoneSound
<1> QED
  BY <1>1, Usage, PTL

=============================================================================
