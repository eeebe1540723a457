-------------------------- MODULE ApplicationProofs --------------------------
(***************************************************************************)
(* For any number of threads: a stream of a device has one user, but for   *)
(* the streams that two threads found free at the same time; and whoever   *)
(* leaves the context of a device, nested as they may be, finds the device *)
(* that was current when it entered, unless somebody replaced it.  For any *)
(* model, workers and stages: the parameters are divided in order among    *)
(* buckets and ranks, micro-batches pass the stages one after another, the *)
(* rate of learning stays scaled by the workers that there are, and an     *)
(* optimizer's state is that of its parameters.  And what holds of each    *)
(* part of an application holds of the application, whose state keeps its  *)
(* types.                                                                  *)
(***************************************************************************)
EXTENDS MCApplications, ModelProofs, TrustProofs

(* The streams and the contexts of devices. *)

Doing == {"idle", "waits", "creates", "scans", "takes"}
Then == {"idle", "scans"}
User == [at : Doing, then : Then, next : Nat \ {0}, holds : SUBSET Nat]

Held(s) == {u \in Users : s \in user[u].holds}

OneUser(s) == IF inUse[s] THEN \E u \in Users : Held(s) = {u} ELSE Held(s) = {}

\* What a thread k can be doing: it creates before all else.
UserFits(k) ==
  /\ k \in User /\ k.holds \subseteq DOMAIN inUse
  /\ k.at = "creates" => pools = 0
  /\ k.at = "takes" => k.next \in DOMAIN inUse
  /\ k.at \in {"scans", "takes"} => pools = 1

StreamsInvariant ==
  /\ user = [u \in Users |-> user[u]] /\ pools \in {0, 1} /\ inUse \in Seq(BOOLEAN)
  /\ pools = 0 => inUse = <<>>
  /\ \A u \in Users : UserFits(user[u]) /\ (At(u, "creates") => initLock = u)
  /\ \A s \in DOMAIN inUse \ raced : OneUser(s)

LEMMA StreamsStart == DevicePoolInit => StreamsInvariant
<1> SUFFICES ASSUME DevicePoolInit PROVE StreamsInvariant
  OBVIOUS
<1>1. [at |-> "idle", then |-> "idle", next |-> 1, holds |-> {}] \in User
  BY DEF User, Doing, Then
<1>2. ASSUME NEW u \in Users PROVE UserFits(user[u]) /\ ~At(u, "creates")
  BY <1>1 DEF UserFits, At, DevicePoolInit
<1>3. QED
  BY <1>2 DEF StreamsInvariant, DevicePoolInit

(* A thread moves, and takes or returns no stream. *)
LEMMA UserMoves ==
  ASSUME StreamsInvariant, NEW u \in Users, NEW k, UserFits(k), k.holds = user[u].holds,
         k.at = "creates" => initLock' = u,
         user' = [user EXCEPT ![u] = k], UNCHANGED <<pools, inUse, raced>>,
         initLock' = initLock \/ initLock = Nobody
  PROVE  StreamsInvariant'
<1>1. \A v \in Users : user'[v] = IF v = u THEN k ELSE user[v]
  BY DEF StreamsInvariant
<1>2. pools' = pools /\ inUse' = inUse /\ raced' = raced
  OBVIOUS
<1>3. ASSUME NEW v \in Users PROVE UserFits(user[v])' /\ (At(v, "creates")' => initLock' = v)
  <2>1. CASE v = u
    BY <2>1, <1>1, <1>2 DEF UserFits, At
  <2>2. CASE v # u
    <3>1. UserFits(user[v]) /\ user'[v] = user[v] /\ (At(v, "creates") => initLock = v)
      BY <2>2, <1>1 DEF StreamsInvariant
    <3>2. At(v, "creates") => initLock' = v
      BY <3>1, DevicePoolAssumption
    <3>3. QED
      BY <3>1, <3>2, <1>2 DEF UserFits, At
  <2>3. QED
    BY <2>1, <2>2
<1>4. ASSUME NEW s PROVE Held(s)' = Held(s)
  BY <1>1 DEF Held
<1>5. \A s \in DOMAIN inUse' \ raced' : OneUser(s)'
  BY <1>2, <1>4 DEF OneUser, StreamsInvariant
<1>6. user' = [v \in Users |-> user'[v]]
  BY DEF StreamsInvariant
<1>7. QED
  BY <1>2, <1>3, <1>5, <1>6 DEF StreamsInvariant

(* The fields of a thread that goes elsewhere, or that has other streams. *)
Placed(j, at, then, next) == [j EXCEPT !.at = at, !.then = then, !.next = next]

WithHeld(j, holds) == [j EXCEPT !.at = "idle", !.holds = holds]

LEMMA UserPlaced ==
  ASSUME NEW j \in User, NEW at \in Doing, NEW then \in Then, NEW next \in Nat \ {0}
  PROVE  /\ Placed(j, at, then, next) \in User /\ Placed(j, at, then, next).at = at
         /\ Placed(j, at, then, next).then = then /\ Placed(j, at, then, next).next = next
         /\ Placed(j, at, then, next).holds = j.holds
<1> DEFINE k == [j EXCEPT !.at = at, !.then = then, !.next = next]
           sets == SUBSET Nat
           numbers == Nat \ {0}
<1>1. j \in [at : Doing, then : Then, next : numbers, holds : sets] /\ next \in numbers
  BY DEF User
<1> HIDE DEF sets, numbers
<1>2. k \in [at : Doing, then : Then, next : numbers, holds : sets]
  BY <1>1
<1>3. k.at = at /\ k.then = then /\ k.next = next /\ k.holds = j.holds
  BY <1>1
<1>4. QED
  BY <1>2, <1>3 DEF User, sets, numbers, Placed

LEMMA UserHeld ==
  ASSUME NEW j \in User, NEW holds \in SUBSET Nat
  PROVE  /\ WithHeld(j, holds) \in User /\ WithHeld(j, holds).at = "idle"
         /\ WithHeld(j, holds).holds = holds
<1> DEFINE k == [j EXCEPT !.at = "idle", !.holds = holds]
           sets == SUBSET Nat
           numbers == Nat \ {0}
<1>1. /\ j \in [at : Doing, then : Then, next : numbers, holds : sets] /\ holds \in sets
      /\ "idle" \in Doing
  BY DEF User, Doing
<1> HIDE DEF sets, numbers
<1>2. k \in [at : Doing, then : Then, next : numbers, holds : sets]
  BY <1>1
<1>3. k.at = "idle" /\ k.holds = holds
  BY <1>1
<1>4. QED
  BY <1>2, <1>3 DEF User, sets, numbers, WithHeld

LEMMA DeviceIsUsed ==
  ASSUME StreamsInvariant, NEW u \in Users, NEW then \in Then, UseDevice(u, then)
  PROVE  StreamsInvariant'
<1> DEFINE at == IF pools > 0 THEN then ELSE "waits"
           k == Placed(user[u], at, then, 1)
<1>1. /\ UNCHANGED <<initLock, pools, inUse, raced>>
      /\ user' = [user EXCEPT ![u].at = at, ![u].then = then, ![u].next = 1]
  BY DEF UseDevice
<1>2. user' = [user EXCEPT ![u] = k]
  BY <1>1 DEF StreamsInvariant, Placed
<1>3. /\ at \in Doing /\ at # "creates" /\ at # "takes" /\ (at = "scans" => pools = 1)
      /\ user[u] \in User /\ user[u].holds \subseteq DOMAIN inUse
  BY DEF StreamsInvariant, Doing, Then, UserFits
<1> HIDE DEF at
<1>4. k \in User /\ k.at = at /\ k.holds = user[u].holds
  BY <1>3, UserPlaced
<1> HIDE DEF k
<1>5. UserFits(k)
  BY <1>3, <1>4 DEF UserFits
<1>6. QED
  BY <1>1, <1>2, <1>3, <1>4, <1>5, UserMoves

(* The lock is free, so nobody creates. *)
LEMMA LockIsTaken ==
  ASSUME StreamsInvariant, NEW u \in Users, InitializeLocks(u)
  PROVE  StreamsInvariant'
<1> DEFINE at == IF pools > 0 THEN user[u].then ELSE "creates"
           k == Placed(user[u], at, user[u].then, user[u].next)
<1>1. /\ UNCHANGED <<pools, inUse, raced>> /\ initLock = Nobody
      /\ user' = [user EXCEPT ![u].at = at] /\ (pools = 0 => initLock' = u)
      /\ UserFits(user[u]) /\ user[u] \in User /\ pools \in {0, 1}
  BY DEF InitializeLocks, Goes, StreamsInvariant, UserFits
<1>2. user' = [user EXCEPT ![u] = k]
  BY <1>1 DEF StreamsInvariant, User, Placed
<1>3. /\ user[u].then \in Then /\ user[u].next \in Nat \ {0}
      /\ user[u].holds \subseteq DOMAIN inUse
  BY <1>1 DEF User, UserFits
<1>4. at \in Doing /\ at # "takes" /\ (at = "scans" => pools = 1) /\ (at = "creates" => pools = 0)
  BY <1>1, <1>3 DEF Doing, Then
<1> HIDE DEF at
<1>5. k \in User /\ k.at = at /\ k.holds = user[u].holds
  BY <1>1, <1>3, <1>4, UserPlaced
<1> HIDE DEF k
<1>6. UserFits(k)
  BY <1>3, <1>4, <1>5 DEF UserFits
<1>7. QED
  BY <1>1, <1>2, <1>4, <1>5, <1>6, UserMoves

(* A thread comes to hold other streams. *)
LEMMA UserTakes ==
  ASSUME StreamsInvariant, NEW u \in Users, NEW holds \in SUBSET Nat, holds \subseteq DOMAIN inUse',
         user' = [user EXCEPT ![u].at = "idle", ![u].holds = holds],
         inUse' \in Seq(BOOLEAN), DOMAIN inUse \subseteq DOMAIN inUse', pools = 1,
         UNCHANGED <<initLock, pools>>,
         \A s \in DOMAIN inUse' \ raced' :
           IF inUse'[s] THEN \E w \in Users : Held(s)' = {w} ELSE Held(s)' = {}
  PROVE  StreamsInvariant'
<1> DEFINE k == WithHeld(user[u], holds)
<1>1. user' = [user EXCEPT ![u] = k] /\ user[u] \in User
  BY DEF StreamsInvariant, UserFits, WithHeld
<1>2. k \in User /\ k.at = "idle" /\ k.holds = holds
  BY <1>1, UserHeld
<1> HIDE DEF k
<1>3. \A v \in Users : user'[v] = IF v = u THEN k ELSE user[v]
  BY <1>1 DEF StreamsInvariant
<1>4. ASSUME NEW v \in Users PROVE UserFits(user[v])' /\ (At(v, "creates")' => initLock' = v)
  <2>1. CASE v = u
    BY <2>1, <1>2, <1>3 DEF UserFits, At
  <2>2. CASE v # u
    <3>1. UserFits(user[v]) /\ user'[v] = user[v] /\ (At(v, "creates") => initLock = v)
      BY <2>2, <1>3 DEF StreamsInvariant
    <3>2. QED
      BY <3>1 DEF UserFits, At
  <2>3. QED
    BY <2>1, <2>2
<1>5. user' = [v \in Users |-> user'[v]]
  BY <1>1 DEF StreamsInvariant
<1>6. \A s \in DOMAIN inUse' \ raced' : OneUser(s)'
  BY DEF OneUser
<1>7. pools' = 1
  OBVIOUS
<1>8. QED
  BY <1>4, <1>5, <1>6, <1>7 DEF StreamsInvariant

LEMMA DeviceIsMade ==
  ASSUME StreamsInvariant, NEW u \in Users, Initialize(u)
  PROVE  StreamsInvariant'
<1> DEFINE k == Placed(user[u], user[u].then, user[u].then, user[u].next)
           new == [i \in 1..Preallocated |-> FALSE]
<1>1. /\ At(u, "creates") /\ initLock = u /\ pools = 0 /\ inUse = <<>> /\ user[u] \in User
      /\ user' = [user EXCEPT ![u].at = user[u].then] /\ initLock' = Nobody
      /\ pools' = 1 /\ inUse' = inUse \o new
  BY DEF Initialize, Goes, StreamsInvariant, UserFits, At
<1>2. user' = [user EXCEPT ![u] = k]
  BY <1>1 DEF StreamsInvariant, User, Placed
<1>3. user[u].then \in Doing /\ user[u].then \in Then /\ user[u].next \in Nat \ {0}
  BY <1>1 DEF User, Then, Doing
<1>4. k \in User /\ k.at = user[u].then /\ k.holds = user[u].holds
  BY <1>1, <1>3, UserPlaced
<1> HIDE DEF k
<1>5. new \in Seq(BOOLEAN) /\ Len(new) = Preallocated
  BY DevicePoolAssumption
<1>6. inUse' \in Seq(BOOLEAN) /\ \A s \in DOMAIN inUse' : inUse'[s] = FALSE
  <2>1. inUse' = new
    BY <1>1, <1>5, ConcatEmptySeq
  <2>2. QED
    BY <1>5, <2>1
<1>7. DOMAIN inUse = {}
  BY <1>1
<1>8. \A v \in Users : user'[v] = (IF v = u THEN k ELSE user[v]) /\ user[v].holds = {}
  BY <1>2, <1>7 DEF StreamsInvariant, UserFits
<1>9. ASSUME NEW v \in Users PROVE UserFits(user[v])' /\ ~At(v, "creates")'
  <2>1. CASE v = u
    BY <2>1, <1>1, <1>3, <1>4, <1>8 DEF UserFits, At, Then
  <2>2. CASE v # u
    <3>1. UserFits(user[v]) /\ user'[v] = user[v] /\ ~At(v, "creates") /\ user[v].holds = {}
      BY <2>2, <1>1, <1>8 DEF StreamsInvariant
    <3>2. QED
      BY <3>1, <1>1, <1>7 DEF UserFits, At
  <2>3. QED
    BY <2>1, <2>2
<1>10. ASSUME NEW s PROVE Held(s)' = {}
  BY <1>1, <1>4, <1>8 DEF Held
<1>11. \A s \in DOMAIN inUse' \ raced' : OneUser(s)'
  BY <1>6, <1>10 DEF OneUser
<1>12. user' = [v \in Users |-> user'[v]]
  BY <1>2 DEF StreamsInvariant
<1>13. pools' \in {0, 1} /\ pools' # 0
  BY <1>1
<1>14. QED
  BY <1>6, <1>9, <1>11, <1>12, <1>13 DEF StreamsInvariant

LEMMA StreamIsAdded ==
  ASSUME StreamsInvariant, NEW u \in Users, At(u, "scans"),
         inUse' = Append(inUse, TRUE), UNCHANGED <<initLock, pools, raced>>,
         user' = [user EXCEPT ![u].at = "idle", ![u].holds = @ \cup {Len(inUse) + 1}]
  PROVE  StreamsInvariant'
<1>0. user[u] \in User
  BY DEF StreamsInvariant, UserFits
<1> DEFINE new == Len(inUse) + 1
           holds == user[u].holds \cup {new}
<1>1. inUse \in Seq(BOOLEAN) /\ user[u].holds \subseteq DOMAIN inUse /\ pools = 1
  BY DEF StreamsInvariant, UserFits, At
<1>2. /\ inUse' \in Seq(BOOLEAN) /\ inUse'[new] = TRUE /\ new \notin DOMAIN inUse
      /\ DOMAIN inUse' = DOMAIN inUse \cup {new} /\ DOMAIN inUse' \subseteq Nat
      /\ \A s \in DOMAIN inUse : inUse'[s] = inUse[s]
  <2>1. inUse' \in Seq(BOOLEAN) /\ Len(inUse') = new
    BY <1>1
  <2>2. DOMAIN inUse = 1..Len(inUse) /\ DOMAIN inUse' = 1..new /\ Len(inUse) \in Nat
    BY <1>1, <2>1
  <2>3. new \notin DOMAIN inUse /\ DOMAIN inUse' = DOMAIN inUse \cup {new}
    BY <2>2
  <2>4. DOMAIN inUse' \subseteq Nat
    BY <2>2
  <2>5. inUse'[new] = TRUE
    BY <1>1, AppendProperties
  <2>6. \A s \in DOMAIN inUse : inUse'[s] = inUse[s]
    BY <1>1, <2>2, AppendProperties
  <2>7. QED
    BY <2>1, <2>3, <2>4, <2>5, <2>6
<1>3. user' = [user EXCEPT ![u].at = "idle", ![u].holds = holds]
  OBVIOUS
<1>held. \A v \in Users : user'[v].holds = IF v = u THEN holds ELSE user[v].holds
  BY <1>0, <1>3 DEF StreamsInvariant, User
<1> HIDE DEF new
<1>4. holds \in SUBSET Nat /\ holds \subseteq DOMAIN inUse'
  BY <1>1, <1>2
<1>5. ASSUME NEW s \in DOMAIN inUse' \ raced'
      PROVE  IF inUse'[s] THEN \E w \in Users : Held(s)' = {w} ELSE Held(s)' = {}
  <2>1. Held(s)' = {v \in Users : IF v = u THEN s \in holds ELSE s \in user[v].holds}
    BY <1>held DEF Held
  <2>2. CASE s = new
    <3>1. \A v \in Users : s \notin user[v].holds
      BY <2>2, <1>2 DEF StreamsInvariant, UserFits
    <3>2. Held(s)' = {u}
      BY <2>1, <2>2, <3>1
    <3>3. QED
      BY <2>2, <3>2, <1>2
  <2>3. CASE s # new
    <3>1. s \in DOMAIN inUse \ raced /\ inUse'[s] = inUse[s]
      BY <2>3, <1>2
    <3>2. Held(s)' = Held(s)
      BY <2>1, <2>3 DEF Held
    <3>3. OneUser(s)
      BY <3>1 DEF StreamsInvariant
    <3>4. QED
      BY <3>1, <3>2, <3>3 DEF OneUser
  <2>4. QED
    BY <2>2, <2>3
<1> HIDE DEF holds
<1>6. QED
  BY <1>1, <1>2, <1>3, <1>4, <1>5, UserTakes

LEMMA StreamIsTaken ==
  ASSUME StreamsInvariant, NEW u \in Users, TakeStream(u)
  PROVE  StreamsInvariant'
<1> DEFINE new == user[u].next
           holds == user[u].holds \cup {new}
<1>1. /\ inUse \in Seq(BOOLEAN) /\ user[u].holds \subseteq DOMAIN inUse
      /\ pools = 1 /\ new \in DOMAIN inUse
  BY DEF StreamsInvariant, UserFits, At, TakeStream
<1>2. /\ user' = [user EXCEPT ![u].at = "idle", ![u].holds = holds]
      /\ inUse' = [inUse EXCEPT ![new] = TRUE] /\ UNCHANGED <<initLock, pools>>
      /\ raced' = IF inUse[new] THEN raced \cup {new} ELSE raced
  BY DEF TakeStream
<1>held. \A v \in Users : user'[v].holds = IF v = u THEN holds ELSE user[v].holds
  BY <1>1, <1>2 DEF StreamsInvariant, User
<1> HIDE DEF new
<1>3. /\ inUse' \in Seq(BOOLEAN) /\ DOMAIN inUse' = DOMAIN inUse /\ DOMAIN inUse \subseteq Nat
      /\ \A s \in DOMAIN inUse : inUse'[s] = IF s = new THEN TRUE ELSE inUse[s]
  BY <1>1, <1>2
<1>4. holds \in SUBSET Nat /\ holds \subseteq DOMAIN inUse'
  BY <1>1, <1>3
<1>5. ASSUME NEW s \in DOMAIN inUse' \ raced'
      PROVE  IF inUse'[s] THEN \E w \in Users : Held(s)' = {w} ELSE Held(s)' = {}
  <2>1. Held(s)' = {v \in Users : IF v = u THEN s \in holds ELSE s \in user[v].holds}
    BY <1>held DEF Held
  <2>2. s \in DOMAIN inUse \ raced /\ OneUser(s)
    BY <1>2, <1>3 DEF StreamsInvariant
  <2>3. CASE s = new
    <3>1. ~inUse[s]
      BY <2>3, <1>2
    <3>2. \A v \in Users : s \notin user[v].holds
      BY <3>1, <2>2 DEF OneUser, Held
    <3>3. Held(s)' = {u}
      BY <2>1, <2>3, <3>2
    <3>4. QED
      BY <2>2, <2>3, <3>3, <1>3
  <2>4. CASE s # new
    <3>1. Held(s)' = Held(s)
      BY <2>1, <2>4 DEF Held
    <3>2. QED
      BY <2>2, <2>4, <3>1, <1>3 DEF OneUser
  <2>5. QED
    BY <2>3, <2>4
<1> HIDE DEF holds
<1>6. QED
  BY <1>1, <1>2, <1>3, <1>4, <1>5, UserTakes

LEMMA StreamIsReturned ==
  ASSUME StreamsInvariant, NEW u \in Users, NEW old \in user[u].holds, ReturnStream(u, old)
  PROVE  StreamsInvariant'
<1> DEFINE holds == user[u].holds \ {old}
<1>1. /\ inUse \in Seq(BOOLEAN) /\ user[u].holds \subseteq DOMAIN inUse
      /\ old \in DOMAIN inUse /\ user[u].at = "idle" /\ user[u] \in User
  BY DEF StreamsInvariant, UserFits, At, ReturnStream
<1>2. pools = 1
  BY <1>1 DEF StreamsInvariant
<1>3. /\ user' = [user EXCEPT ![u].holds = holds]
      /\ inUse' = [inUse EXCEPT ![old] = FALSE] /\ UNCHANGED <<initLock, pools, raced>>
  BY DEF ReturnStream
<1>4. user' = [user EXCEPT ![u].at = "idle", ![u].holds = holds]
  BY <1>1, <1>3 DEF StreamsInvariant, User
<1>held. \A v \in Users : user'[v].holds = IF v = u THEN holds ELSE user[v].holds
  BY <1>1, <1>4 DEF StreamsInvariant, User
<1>5. /\ inUse' \in Seq(BOOLEAN) /\ DOMAIN inUse' = DOMAIN inUse /\ DOMAIN inUse \subseteq Nat
      /\ \A s \in DOMAIN inUse : inUse'[s] = IF s = old THEN FALSE ELSE inUse[s]
  BY <1>1, <1>3
<1>6. holds \in SUBSET Nat /\ holds \subseteq DOMAIN inUse'
  BY <1>1, <1>5
<1>7. ASSUME NEW s \in DOMAIN inUse' \ raced'
      PROVE  IF inUse'[s] THEN \E w \in Users : Held(s)' = {w} ELSE Held(s)' = {}
  <2>1. Held(s)' = {v \in Users : IF v = u THEN s \in holds ELSE s \in user[v].holds}
    BY <1>held DEF Held
  <2>2. s \in DOMAIN inUse \ raced /\ OneUser(s)
    BY <1>3, <1>5 DEF StreamsInvariant
  <2>3. CASE s = old
    <3>1. Held(s) = {u}
      BY <2>2, <2>3 DEF OneUser, Held
    <3>2. \A v \in Users : v # u => s \notin user[v].holds
      BY <3>1 DEF Held
    <3>3. Held(s)' = {}
      BY <2>1, <2>3, <3>2
    <3>4. QED
      BY <2>2, <2>3, <3>3, <1>5
  <2>4. CASE s # old
    <3>1. Held(s)' = Held(s)
      BY <2>1, <2>4 DEF Held
    <3>2. QED
      BY <2>2, <2>4, <3>1, <1>5 DEF OneUser
  <2>5. QED
    BY <2>3, <2>4
<1> HIDE DEF holds
<1>8. QED
  BY <1>2, <1>3, <1>4, <1>5, <1>6, <1>7, UserTakes

(* get_stream() looks at a stream and goes on, or stops there. *)
LEMMA StreamIsSeen ==
  ASSUME StreamsInvariant, NEW u \in Users, At(u, "scans"), user[u].next <= Len(inUse),
         user' = [user EXCEPT
                    ![u].next = IF inUse[user[u].next] THEN user[u].next + 1 ELSE user[u].next,
                    ![u].at = IF inUse[user[u].next] THEN @ ELSE "takes"],
         UNCHANGED <<initLock, pools, inUse, raced>>
  PROVE  StreamsInvariant'
<1> DEFINE used == inUse[user[u].next]
           next == IF used THEN user[u].next + 1 ELSE user[u].next
           at == IF used THEN "scans" ELSE "takes"
           k == Placed(user[u], at, user[u].then, next)
<1>1. /\ inUse \in Seq(BOOLEAN) /\ user[u].holds \subseteq DOMAIN inUse /\ user[u] \in User
      /\ pools = 1 /\ user[u].at = "scans"
  BY DEF StreamsInvariant, UserFits, At
<1>2. user' = [user EXCEPT ![u] = k]
  BY <1>1 DEF StreamsInvariant, User, Placed
<1>3. user[u].then \in Then /\ user[u].next \in Nat \ {0}
  BY <1>1 DEF User
<1>4. at \in Doing /\ next \in Nat \ {0} /\ (at = "takes" => next \in DOMAIN inUse)
  BY <1>1, <1>3 DEF Doing
<1>5. at # "creates"
  OBVIOUS
<1> HIDE DEF at, next, used
<1>6. k \in User /\ k.at = at /\ k.next = next /\ k.holds = user[u].holds
  BY <1>1, <1>3, <1>4, UserPlaced
<1> HIDE DEF k
<1>7. UserFits(k)
  BY <1>1, <1>4, <1>5, <1>6 DEF UserFits
<1>8. QED
  BY <1>2, <1>5, <1>6, <1>7, UserMoves

LEMMA StreamsStay == ASSUME StreamsInvariant, UNCHANGED devicePoolVars PROVE StreamsInvariant'
<1>1. /\ initLock' = initLock /\ pools' = pools /\ inUse' = inUse
      /\ user' = user /\ raced' = raced
  BY DEF devicePoolVars
<1>2. QED
  BY <1>1 DEF StreamsInvariant, UserFits, At, OneUser, Held

LEMMA StreamsStep == StreamsInvariant /\ [DevicePoolNext]_devicePoolVars => StreamsInvariant'
<1> SUFFICES ASSUME StreamsInvariant, [DevicePoolNext]_devicePoolVars PROVE StreamsInvariant'
  OBVIOUS
<1>1. CASE UNCHANGED devicePoolVars
  BY <1>1, StreamsStay
<1>2. ASSUME NEW u \in Users, NEW then \in {"idle", "scans"}, UseDevice(u, then)
      PROVE  StreamsInvariant'
  BY <1>2, DeviceIsUsed DEF Then
<1>3. ASSUME NEW u \in Users, InitializeLocks(u) PROVE StreamsInvariant'
  BY <1>3, LockIsTaken
<1>4. ASSUME NEW u \in Users, Initialize(u) PROVE StreamsInvariant'
  BY <1>4, DeviceIsMade
<1>5. ASSUME NEW u \in Users, ScanStream(u) PROVE StreamsInvariant'
  <2>1. /\ At(u, "scans") /\ UNCHANGED <<initLock, pools, raced>>
        /\ user[u].next > Len(inUse) \/ user[u].next <= Len(inUse)
    BY <1>5 DEF ScanStream
  <2>2. CASE /\ inUse' = Append(inUse, TRUE)
             /\ user' = [user EXCEPT ![u].at = "idle",
                                     ![u].holds = @ \cup {Len(inUse) + 1}]
    BY <2>1, <2>2, StreamIsAdded
  <2>3. CASE /\ user[u].next <= Len(inUse) /\ UNCHANGED inUse
             /\ user' = [user EXCEPT
                   ![u].next = IF inUse[user[u].next] THEN user[u].next + 1 ELSE user[u].next,
                   ![u].at = IF inUse[user[u].next] THEN @ ELSE "takes"]
    BY <2>1, <2>3, StreamIsSeen
  <2>4. QED
    BY <1>5, <2>2, <2>3 DEF ScanStream
<1>6. ASSUME NEW u \in Users, TakeStream(u) PROVE StreamsInvariant'
  BY <1>6, StreamIsTaken
<1>7. ASSUME NEW u \in Users, NEW s \in user[u].holds, ReturnStream(u, s)
      PROVE  StreamsInvariant'
  BY <1>7, StreamIsReturned
<1>8. QED
  BY <1>1, <1>2, <1>3, <1>4, <1>5, <1>6, <1>7 DEF DevicePoolNext

LEMMA OneUserCounts == StreamsInvariant => OneUserPerStream
<1> SUFFICES ASSUME StreamsInvariant PROVE OneUserPerStream
  OBVIOUS
<1>1. pools <= 1
  BY DEF StreamsInvariant
<1>2. ASSUME NEW s \in DOMAIN inUse \ raced
      PROVE  Cardinality({u \in Users : s \in user[u].holds}) = IF inUse[s] THEN 1 ELSE 0
  <2>1. OneUser(s)
    BY DEF StreamsInvariant
  <2>2. CASE inUse[s]
    <3>1. PICK u \in Users : Held(s) = {u}
      BY <2>1, <2>2 DEF OneUser
    <3>2. Cardinality(Held(s)) = 1
      BY <3>1, FS_Singleton
    <3>3. QED
      BY <2>2, <3>2 DEF Held
  <2>3. CASE ~inUse[s]
    <3>1. Cardinality(Held(s)) = 0
      BY <2>1, <2>3, FS_EmptySet DEF OneUser
    <3>2. QED
      BY <2>3, <3>1 DEF Held
  <2>4. QED
    BY <2>2, <2>3
<1>3. QED
  BY <1>1, <1>2 DEF OneUserPerStream

(* For any number of threads and of streams, a device is initialized at most once, and
   a stream that no two threads found free at the same time has one user exactly while
   it is in use. *)
THEOREM StreamsHaveOneUser == DevicePoolSpec => []OneUserPerStream
<1>1. DevicePoolInit => StreamsInvariant
  BY StreamsStart
<1>2. StreamsInvariant /\ [DevicePoolNext]_devicePoolVars => StreamsInvariant'
  BY StreamsStep
<1>3. StreamsInvariant => OneUserPerStream
  BY OneUserCounts
<1>4. QED
  BY <1>1, <1>2, <1>3, PTL DEF DevicePoolSpec
-----------------------------------------------------------------------------
\* How many of the first n contexts of a list are of device d.
EntriesOf(list, d, n) == {i \in 1..n : list[i][2] = d}
Entries(list, d, n) == Cardinality(EntriesOf(list, d, n))

\* The device outside the n-th context.
Beyond(list, n, outermost) == IF n = 1 THEN outermost ELSE list[n - 1][2]

\* The stacks hold what the first n contexts of a list have to restore, and no more.
Recalled(list, n, stacks, outermost) ==
  /\ \A d \in Objects : Len(stacks[d]) = Entries(list, d, n)
  /\ \A i \in 1..n :
       stacks[list[i][2]][Entries(list, list[i][2], i)] = Beyond(list, i, outermost)

Known == 1..made \cup {NoDevice}
Context == Holding \X Objects
AtThread == {"idle", "enumerates", "instantiates", "starts", "enters", "exits"}
Thread == [at : AtThread, device : Objects \cup {NoDevice}, was : Objects \cup {NoDevice}]
Between == {"enters", "exits"}

DevicesTyped ==
  /\ made \in Nat /\ 1..made \subseteq Objects
  /\ {single, current, base} \subseteq Known
  /\ stack \in [Objects -> Seq(Objects \cup {NoDevice})]
  /\ \A d \in Objects : \A i \in 1..Len(stack[d]) : stack[d][i] \in Known
  /\ thread \in [Holding -> Thread]
  /\ \A t \in Holding : thread[t].device \in Known /\ thread[t].was \in Known
  /\ \A t \in Holding : Place(t, "enters") => thread[t].device \in Objects
  /\ inside \in Seq(Context)

\* One thread at a time is between a stack and the current device: it has pushed what
\* was current, or popped what will be.
OneBetween ==
  \A t, u \in Holding : thread[t].at \in Between /\ thread[u].at \in Between => t = u
AllKept ==
  (\A t \in Holding : thread[t].at \notin Between) => Recalled(inside, Len(inside), stack, base)
EnteringKept ==
  \A t \in Holding : Place(t, "enters") =>
    Recalled(Append(inside, <<t, thread[t].device>>), Len(inside) + 1, stack, base)
LeavingKept ==
  \A t \in Holding : Place(t, "exits") =>
    /\ Len(inside) # 0 /\ Innermost(t) = Len(inside)
    /\ Recalled(inside, Len(inside) - 1, stack, base)
    /\ thread[t].was = Beyond(inside, Len(inside), base)
CurrentFits == current = Beyond(inside, Len(inside) + 1, base)

Nested == OneBetween /\ AllKept /\ EnteringKept /\ LeavingKept /\ CurrentFits
ContextInvariant == DevicesTyped /\ (~disturbed => Nested)
-----------------------------------------------------------------------------
(* Counting the contexts of a device. *)
LEMMA EntriesCount ==
  ASSUME NEW list, NEW d, NEW n \in Nat
  PROVE  /\ Entries(list, d, n) \in 0..n
         /\ Entries(list, d, n + 1) =
              IF list[n + 1][2] = d THEN Entries(list, d, n) + 1 ELSE Entries(list, d, n)
         /\ IsFiniteSet(EntriesOf(list, d, n))
<1>1. ASSUME NEW m \in Nat
      PROVE  IsFiniteSet(EntriesOf(list, d, m)) /\ Cardinality(EntriesOf(list, d, m)) \in 0..m
  <2>1. IsFiniteSet(1..m) /\ Cardinality(1..m) = m
    <3>1. 1 \in Int /\ m \in Int
      OBVIOUS
    <3>2. /\ IsFiniteSet(1..m)
          /\ Cardinality(1..m) = IF 1 > m THEN 0 ELSE m - 1 + 1
      BY <3>1, FS_Interval
    <3>3. QED
      BY <3>2
  <2>2. EntriesOf(list, d, m) \subseteq 1..m
    BY DEF EntriesOf
  <2>3. /\ IsFiniteSet(EntriesOf(list, d, m))
        /\ Cardinality(EntriesOf(list, d, m)) <= Cardinality(1..m)
    BY <2>1, <2>2, FS_Subset
  <2>4. Cardinality(EntriesOf(list, d, m)) \in Nat
    BY <2>3, FS_CardinalityType
  <2>5. QED
    BY <2>1, <2>3, <2>4
<1>2. CASE list[n + 1][2] = d
  <2>1. EntriesOf(list, d, n + 1) = EntriesOf(list, d, n) \cup {n + 1}
    BY <1>2 DEF EntriesOf
  <2>2. n + 1 \notin EntriesOf(list, d, n)
    BY DEF EntriesOf
  <2>3. Cardinality(EntriesOf(list, d, n) \cup {n + 1}) = Cardinality(EntriesOf(list, d, n)) + 1
    BY <1>1, <2>2, FS_AddElement
  <2>4. QED
    BY <1>1, <1>2, <2>1, <2>3 DEF Entries
<1>3. CASE list[n + 1][2] # d
  <2>1. EntriesOf(list, d, n + 1) = EntriesOf(list, d, n)
    BY <1>3 DEF EntriesOf
  <2>2. QED
    BY <1>1, <1>3, <2>1 DEF Entries
<1>4. QED
  BY <1>2, <1>3

LEMMA EntriesGrow ==
  ASSUME NEW list, NEW d, NEW n \in Nat, NEW m \in 0..n
  PROVE  Entries(list, d, m) <= Entries(list, d, n)
<1>1. EntriesOf(list, d, m) \subseteq EntriesOf(list, d, n)
  BY DEF EntriesOf
<1>2. QED
  BY <1>1, EntriesCount, FS_Subset DEF Entries

(* Lists that agree count alike. *)
LEMMA EntriesAgree ==
  ASSUME NEW list, NEW other, NEW n \in Nat, \A i \in 1..n : list[i] = other[i],
         NEW d, NEW m \in 0..n
  PROVE  Entries(list, d, m) = Entries(other, d, m)
<1>1. EntriesOf(list, d, m) = EntriesOf(other, d, m)
  BY DEF EntriesOf
<1>2. QED
  BY <1>1 DEF Entries

LEMMA KeptAgree ==
  ASSUME NEW list, NEW other, NEW n \in Nat, \A i \in 1..n : list[i] = other[i],
         NEW stacks, NEW outermost, Recalled(list, n, stacks, outermost)
  PROVE  Recalled(other, n, stacks, outermost)
<1>1. ASSUME NEW d \in Objects
      PROVE  Len(stacks[d]) = Entries(other, d, n)
  <2>1. n \in 0..n
    OBVIOUS
  <2>2. Entries(list, d, n) = Entries(other, d, n)
    BY <2>1, EntriesAgree
  <2>3. QED
    BY <2>2 DEF Recalled
<1>2. ASSUME NEW i \in 1..n
      PROVE  stacks[other[i][2]][Entries(other, other[i][2], i)] = Beyond(other, i, outermost)
  <2>1. stacks[list[i][2]][Entries(list, list[i][2], i)] = Beyond(list, i, outermost)
    BY DEF Recalled
  <2>2. list[i] = other[i] /\ (i # 1 => list[i - 1] = other[i - 1]) /\ i \in 0..n
    OBVIOUS
  <2>3. Entries(list, list[i][2], i) = Entries(other, list[i][2], i)
    BY <2>2, EntriesAgree
  <2>4. QED
    BY <2>1, <2>2, <2>3 DEF Beyond
<1>3. QED
  BY <1>1, <1>2 DEF Recalled

(* Entering pushes on one stack what is outside the new context. *)
LEMMA KeptByEnter ==
  ASSUME NEW list \in Seq(Context), NEW n \in Nat, n + 1 = Len(list),
         NEW stacks \in [Objects -> Seq(Objects \cup {NoDevice})], NEW outermost,
         Recalled(list, n, stacks, outermost),
         NEW e \in Objects \cup {NoDevice}, e = Beyond(list, n + 1, outermost),
         NEW after, after = [stacks EXCEPT ![list[n + 1][2]] = Append(@, e)]
  PROVE  Recalled(list, n + 1, after, outermost)
<1> DEFINE d == list[n + 1][2]
           old == stacks[d]
           new == Append(old, e)
<1>1. \A i \in 1..(n + 1) : list[i][2] \in Objects
  <2>1. \A i \in 1..(n + 1) : list[i] \in Context
    BY LenProperties, ElementOfSeq
  <2>2. QED
    BY <2>1 DEF Context
<1>2. d \in Objects /\ old \in Seq(Objects \cup {NoDevice}) /\ Len(old) \in Nat
  <2>1. n + 1 \in 1..(n + 1)
    OBVIOUS
  <2>2. QED
    BY <1>1, <2>1, LenProperties
<1>3. /\ Len(new) = Len(old) + 1
      /\ \A j \in 1..Len(old) : new[j] = old[j]
      /\ new[Len(old) + 1] = e
  BY <1>2, AppendProperties
<1>4. \A c \in Objects : after[c] = IF c = d THEN new ELSE stacks[c]
  OBVIOUS
<1> HIDE DEF new
<1>5. Len(old) = Entries(list, d, n)
  BY <1>2 DEF Recalled
<1>6. ASSUME NEW c \in Objects
      PROVE  Len(after[c]) = Entries(list, c, n + 1)
  <2>1. Len(stacks[c]) = Entries(list, c, n)
    BY DEF Recalled
  <2>2. Entries(list, c, n + 1) = IF d = c THEN Entries(list, c, n) + 1 ELSE Entries(list, c, n)
    BY EntriesCount
  <2> HIDE DEF d
  <2>3. QED
    BY <1>3, <1>4, <1>5, <2>1, <2>2
<1>7. ASSUME NEW i \in 1..(n + 1)
      PROVE  after[list[i][2]][Entries(list, list[i][2], i)] = Beyond(list, i, outermost)
  <2>1. CASE i = n + 1
    <3>1. Entries(list, d, n + 1) = Entries(list, d, n) + 1
      BY EntriesCount
    <3>2. after[d][Entries(list, d, n + 1)] = e
      BY <1>2, <1>3, <1>4, <1>5, <3>1
    <3>3. QED
      BY <2>1, <3>2
  <2>2. CASE i # n + 1
    <3> DEFINE c == list[i][2]
    <3>1. c \in Objects
      BY <1>1
    <3>3. i - 1 \in Nat /\ i \in 0..n /\ i \in 1..n
      BY <2>2
    <3>2. stacks[c][Entries(list, c, i)] = Beyond(list, i, outermost)
      BY <3>3 DEF Recalled
    <3>4. Entries(list, c, i) >= 1
      <4>1. (i - 1) + 1 = i
        BY <3>3
      <4>2. /\ Entries(list, c, i - 1) \in 0..(i - 1)
            /\ Entries(list, c, (i - 1) + 1) = Entries(list, c, i - 1) + 1
        BY <3>3, <4>1, EntriesCount
      <4>3. QED
        BY <3>3, <4>1, <4>2
    <3>5. Entries(list, c, i) <= Entries(list, c, n) /\ Entries(list, c, i) \in Int
      BY <3>3, EntriesGrow, EntriesCount
    <3> HIDE DEF c, d
    <3>6. after[c][Entries(list, c, i)] = stacks[c][Entries(list, c, i)]
      <4>1. CASE c = d
        <5>1. Entries(list, c, i) \in 1..Len(old)
          BY <1>2, <1>5, <3>4, <3>5, <4>1
        <5>2. QED
          BY <1>3, <1>4, <3>1, <4>1, <5>1
      <4>2. CASE c # d
        BY <1>4, <3>1, <4>2
      <4>3. QED
        BY <4>1, <4>2
    <3>7. QED
      BY <3>2, <3>6 DEF c
  <2>3. QED
    BY <2>1, <2>2
<1>8. QED
  BY <1>6, <1>7 DEF Recalled

(* Leaving pops it again. *)
LEMMA KeptByExit ==
  ASSUME NEW list \in Seq(Context), NEW n \in Nat, n + 1 = Len(list),
         NEW stacks \in [Objects -> Seq(Objects \cup {NoDevice})], NEW outermost,
         Recalled(list, n + 1, stacks, outermost),
         NEW after, after = [stacks EXCEPT ![list[n + 1][2]] = Front(@)]
  PROVE  /\ Recalled(list, n, after, outermost)
         /\ Last(stacks[list[n + 1][2]]) = Beyond(list, n + 1, outermost)
<1> DEFINE d == list[n + 1][2]
           old == stacks[d]
           new == Front(old)
<1>1. \A i \in 1..(n + 1) : list[i][2] \in Objects
  <2>1. \A i \in 1..(n + 1) : list[i] \in Context
    BY LenProperties, ElementOfSeq
  <2>2. QED
    BY <2>1 DEF Context
<1>2. d \in Objects /\ old \in Seq(Objects \cup {NoDevice}) /\ Len(old) \in Nat
  <2>1. n + 1 \in 1..(n + 1)
    OBVIOUS
  <2>2. QED
    BY <1>1, <2>1, LenProperties
<1>3. /\ Entries(list, d, n) \in Nat
      /\ Len(old) = Entries(list, d, n) + 1
  <2>1. Entries(list, d, n + 1) = Entries(list, d, n) + 1 /\ Entries(list, d, n) \in 0..n
    BY EntriesCount
  <2>2. QED
    BY <1>2, <2>1 DEF Recalled
<1>4. /\ Len(new) = Len(old) - 1
      /\ \A j \in 1..(Len(old) - 1) : new[j] = old[j]
  <2>1. new = SubSeq(old, 1, Len(old) - 1) 
    BY DEF Front
  <2>2. old # <<>>
    BY <1>2, <1>3, EmptySeq
  <2>3. QED
    BY <1>2, <1>3, <2>1, SubSeqProperties
<1>5. \A c \in Objects : after[c] = IF c = d THEN new ELSE stacks[c]
  OBVIOUS
<1> HIDE DEF new
<1>6. ASSUME NEW c \in Objects
      PROVE  Len(after[c]) = Entries(list, c, n)
  <2>1. Len(stacks[c]) = Entries(list, c, n + 1)
    BY DEF Recalled
  <2>2. /\ Entries(list, c, n + 1) = IF d = c THEN Entries(list, c, n) + 1 ELSE Entries(list, c, n)
        /\ Entries(list, c, n) \in 0..n
    BY EntriesCount
  <2> HIDE DEF d
  <2>3. QED
    BY <1>3, <1>4, <1>5, <2>1, <2>2
<1>7. ASSUME NEW i \in 1..n
      PROVE  after[list[i][2]][Entries(list, list[i][2], i)] = Beyond(list, i, outermost)
  <2> DEFINE c == list[i][2]
  <2>1. c \in Objects
    BY <1>1
  <2>2. stacks[c][Entries(list, c, i)] = Beyond(list, i, outermost)
    BY DEF Recalled
  <2>3. i - 1 \in Nat /\ i \in 0..n
    OBVIOUS
  <2>4. Entries(list, c, i) >= 1
    <3>1. (i - 1) + 1 = i
      OBVIOUS
    <3>2. /\ Entries(list, c, i - 1) \in 0..(i - 1)
          /\ Entries(list, c, (i - 1) + 1) = Entries(list, c, i - 1) + 1
      BY <2>3, <3>1, EntriesCount
    <3>3. QED
      BY <2>3, <3>1, <3>2
  <2>5. Entries(list, c, i) <= Entries(list, c, n) /\ Entries(list, c, i) \in Int
    BY <2>3, EntriesGrow, EntriesCount
  <2> HIDE DEF c, d
  <2>6. after[c][Entries(list, c, i)] = stacks[c][Entries(list, c, i)]
    <3>1. CASE c = d
      <4>1. Entries(list, c, i) \in 1..(Len(old) - 1)
        BY <1>2, <1>3, <2>4, <2>5, <3>1
      <4>2. QED
        BY <1>4, <1>5, <2>1, <3>1, <4>1
    <3>2. CASE c # d
      BY <1>5, <2>1, <3>2
    <3>3. QED
      BY <3>1, <3>2
  <2>7. QED
    BY <2>2, <2>6 DEF c
<1>8. Last(old) = Beyond(list, n + 1, outermost)
  <2>1. old[Entries(list, d, n + 1)] = Beyond(list, n + 1, outermost)
    BY DEF Recalled
  <2>2. Entries(list, d, n + 1) = Len(old)
    BY <1>3, EntriesCount
  <2>3. QED
    BY <2>1, <2>2 DEF Last
<1>9. QED
  BY <1>6, <1>7, <1>8 DEF Recalled
-----------------------------------------------------------------------------
LEMMA ContextsStart == CurrentDeviceInit => ContextInvariant
<1> SUFFICES ASSUME CurrentDeviceInit PROVE ContextInvariant
  OBVIOUS
<1> DEFINE k == [at |-> "idle", device |-> NoDevice, was |-> NoDevice]
<1>1. k \in Thread /\ k.at = "idle" /\ k.device = NoDevice /\ k.was = NoDevice
  BY DEF Thread, AtThread
<1>2. thread = [t \in Holding |-> k]
  BY DEF CurrentDeviceInit
<1> HIDE DEF k
<1>3. \A t \in Holding : thread[t] = k
  BY <1>2
<1>4. /\ <<>> \in Seq(Objects \cup {NoDevice}) /\ <<>> \in Seq(Context)
      /\ Len(<<>>) = 0
  BY EmptySeq
<1>5. DevicesTyped
  BY <1>1, <1>2, <1>3, <1>4 DEF CurrentDeviceInit, DevicesTyped, Known, Place
<1>6. Recalled(inside, Len(inside), stack, base)
  <2>1. \A d \in Objects : Entries(inside, d, 0) = 0
    BY EntriesCount
  <2>2. Len(inside) = 0 /\ \A d \in Objects : Len(stack[d]) = 0
    BY <1>4 DEF CurrentDeviceInit
  <2>3. QED
    BY <2>1, <2>2 DEF Recalled
<1>7. CurrentFits
  BY <1>4 DEF CurrentDeviceInit, CurrentFits, Beyond
<1>8. Nested
  BY <1>1, <1>3, <1>6, <1>7
     DEF Nested, OneBetween, AllKept, EnteringKept, LeavingKept, Between, Place
<1>9. QED
  BY <1>5, <1>8 DEF ContextInvariant

(* Steps beside the contexts: no thread comes between, or ceases to be. *)
LEMMA AsideKeeps ==
  ASSUME Nested, \A u \in Holding : \/ thread'[u] = thread[u]
                                    \/ /\ thread[u].at \notin Between
                                       /\ thread'[u].at \notin Between,
         stack' = stack, inside' = inside, base' = base, current' = current
  PROVE  Nested'
<1>1. OneBetween'
  BY DEF Nested, OneBetween
<1>2. AllKept'
  BY DEF Nested, AllKept, Recalled, Beyond, Entries, EntriesOf
<1>3. EnteringKept'
  <2>1. ASSUME NEW t \in Holding, thread'[t].at = "enters"
        PROVE  /\ thread'[t] = thread[t]
               /\ Recalled(Append(inside, <<t, thread[t].device>>), Len(inside) + 1, stack, base)
    BY <2>1 DEF Nested, EnteringKept, Between, Place
  <2>2. ASSUME NEW t \in Holding, thread'[t].at = "enters"
        PROVE  Recalled(Append(inside', <<t, thread'[t].device>>), Len(inside') + 1, stack', base')
    BY <2>1, <2>2
  <2>3. QED
    BY <2>2 DEF EnteringKept, Place
<1>4. LeavingKept'
  <2>1. ASSUME NEW t \in Holding, thread'[t].at = "exits"
        PROVE  /\ thread'[t] = thread[t]
               /\ Len(inside) # 0 /\ Innermost(t) = Len(inside)
               /\ Recalled(inside, Len(inside) - 1, stack, base)
               /\ thread[t].was = Beyond(inside, Len(inside), base)
    BY <2>1 DEF Nested, LeavingKept, Between, Place
  <2>2. \A t \in Holding : Innermost(t)' = Innermost(t)
    BY DEF Innermost, SelectLastInSeq
  <2>3. QED
    BY <2>1, <2>2 DEF LeavingKept, Place, Recalled, Beyond, Entries, EntriesOf
<1>5. CurrentFits'
  BY DEF Nested, CurrentFits, Beyond
<1>6. QED
  BY <1>1, <1>2, <1>3, <1>4, <1>5 DEF Nested

(* Beyond of all contexts a new device becomes what is restored in the end. *)
LEMMA SetKeeps ==
  ASSUME ContextInvariant, NEW d, SetCurrent(d), ~disturbed',
         \A u \in Holding : thread[u].at \notin Between => thread'[u].at \notin Between,
         stack' = stack, inside' = inside
  PROVE  Nested'
<1>1. /\ inside = <<>> /\ ~Amid /\ base' = d /\ current' = d /\ ~disturbed
  BY DEF SetCurrent
<1>2. \A u \in Holding : thread[u].at \notin Between
  BY <1>1 DEF Amid, Place, Between
<1>3. Len(inside) = 0
  BY <1>1, EmptySeq
<1>4. AllKept
  BY <1>1 DEF ContextInvariant, Nested
<1>5. Recalled(inside, 0, stack, base)
  BY <1>2, <1>3, <1>4 DEF AllKept
<1>6. Recalled(inside, 0, stack, base')
  BY <1>5 DEF Recalled
<1>7. AllKept'
  BY <1>3, <1>6 DEF AllKept, Recalled, Beyond, Entries, EntriesOf
<1>8. CurrentFits'
  BY <1>1, <1>3 DEF CurrentFits, Beyond
<1>9. OneBetween' /\ EnteringKept' /\ LeavingKept'
  BY <1>2 DEF OneBetween, EnteringKept, LeavingKept, Between, Place
<1>10. QED
  BY <1>7, <1>8, <1>9 DEF Nested

(* A thread's new state, and the others'. *)
LEMMA ThreadTyped ==
  ASSUME DevicesTyped, NEW t \in Holding, NEW k \in Thread,
         thread' = [thread EXCEPT ![t] = k],
         made' \in Nat, made <= made', 1..made' \subseteq Objects,
         k.device \in 1..made' \cup {NoDevice}, k.was \in 1..made' \cup {NoDevice},
         k.at = "enters" => k.device \in Objects,
         {single', current', base'} \subseteq 1..made' \cup {NoDevice},
         stack' \in [Objects -> Seq(Objects \cup {NoDevice})],
         \A d \in Objects : \A i \in 1..Len(stack'[d]) : stack'[d][i] \in 1..made' \cup {NoDevice},
         inside' \in Seq(Context)
  PROVE  /\ DevicesTyped'
         /\ \A u \in Holding : thread'[u] = IF u = t THEN k ELSE thread[u]
<1>1. \A u \in Holding : thread'[u] = IF u = t THEN k ELSE thread[u]
  BY DEF DevicesTyped
<1>2. thread' \in [Holding -> Thread]
  BY DEF DevicesTyped
<1>3. \A i \in 1..made : i \in 1..made'
  BY DEF DevicesTyped
<1>4. \A u \in Holding : /\ thread'[u].device \in 1..made' \cup {NoDevice}
                         /\ thread'[u].was \in 1..made' \cup {NoDevice}
                         /\ thread'[u].at = "enters" => thread'[u].device \in Objects
  <2>1. ASSUME NEW u \in Holding, u # t
        PROVE  /\ thread[u].device \in 1..made' \cup {NoDevice}
               /\ thread[u].was \in 1..made' \cup {NoDevice}
               /\ thread[u].at = "enters" => thread[u].device \in Objects
    BY <1>3 DEF DevicesTyped, Known, Place
  <2>2. QED
    BY <1>1, <2>1
<1>5. QED
  BY <1>1, <1>2, <1>4 DEF DevicesTyped, Known, Place

(* A thread that only goes to another place. *)
LEMMA ThreadAt ==
  ASSUME DevicesTyped, NEW t \in Holding, NEW place \in AtThread, Moves(t, place)
  PROVE  \E k \in Thread : /\ thread' = [thread EXCEPT ![t] = k]
                           /\ k.at = place /\ k.device = thread[t].device
                           /\ k.was = thread[t].was
<1> DEFINE k == [at |-> place, device |-> thread[t].device, was |-> thread[t].was]
<1>1. thread[t] \in Thread
  BY DEF DevicesTyped
<1>2. [thread[t] EXCEPT !.at = place] = k
  BY <1>1 DEF Thread
<1>3. k \in Thread
  BY <1>1 DEF Thread
<1>4. thread' = [thread EXCEPT ![t] = k]
  BY <1>2 DEF Moves
<1>5. QED
  BY <1>3, <1>4

(* A thread that looks for a device, makes one, or starts the runtime. *)
LEMMA LookingKeeps ==
  ASSUME ContextInvariant, NEW t \in Holding,
         \/ GetDefault(t) \/ EnumerateDevices(t) \/ GetSingle(t) \/ Instantiate(t)
         \/ StartRuntime(t) \/ RuntimeStarted(t)
  PROVE  ContextInvariant'
<1>1. DevicesTyped
  BY DEF ContextInvariant
<1>2. PICK from \in AtThread, to \in AtThread :
        Place(t, from) /\ Moves(t, to) /\ from \notin Between /\ to \notin Between
  BY DEF GetDefault, EnumerateDevices, GetSingle, Instantiate, StartRuntime,
         RuntimeStarted, AtThread, Between
<1>3. PICK k \in Thread : /\ thread' = [thread EXCEPT ![t] = k]
                          /\ k.at = to /\ k.device = thread[t].device
                          /\ k.was = thread[t].was
  BY <1>1, <1>2, ThreadAt
<1>4. stack' = stack /\ inside' = inside
  BY DEF GetDefault, EnumerateDevices, GetSingle, Instantiate, StartRuntime, RuntimeStarted
<1>5. /\ made' \in Nat /\ made <= made' /\ 1..made' \subseteq Objects
      /\ \A i \in 1..made : i \in 1..made'
      /\ {single', current', base'} \subseteq 1..made' \cup {NoDevice}
  <2>1. CASE UNCHANGED <<made, single, current, base>>
    BY <1>1, <2>1 DEF DevicesTyped, Known
  <2>2. CASE /\ MakeDevice /\ {single', current', base'} \subseteq {single, current, base, made + 1}
    <3>1. made + 1 \in Objects /\ made' = made + 1 /\ made \in Nat
      BY <1>1, <2>2 DEF MakeDevice, DevicesTyped
    <3>2. \A i \in 1..(made + 1) : i \in 1..made \/ i = made + 1
      BY <3>1
    <3>3. QED
      BY <1>1, <2>2, <3>1, <3>2 DEF DevicesTyped, Known
  <2>3. CASE /\ made' = made /\ single' = single
             /\ \E d \in 1..made : {current', base'} \subseteq {base, d}
    BY <1>1, <2>3 DEF DevicesTyped, Known
  <2>4. \/ UNCHANGED <<made, single, current, base>>
        \/ /\ MakeDevice /\ {single', current', base'} \subseteq {single, current, base, made + 1}
        \/ /\ made' = made /\ single' = single
           /\ \E d \in 1..made : {current', base'} \subseteq {base, d}
    BY DEF GetDefault, EnumerateDevices, GetSingle, Instantiate, StartRuntime,
           RuntimeStarted, SetCurrent
  <2>5. QED
    BY <2>1, <2>2, <2>3, <2>4
<1>6. /\ DevicesTyped'
      /\ \A u \in Holding : thread'[u] = IF u = t THEN k ELSE thread[u]
  <2>1. /\ k.device \in 1..made' \cup {NoDevice} /\ k.was \in 1..made' \cup {NoDevice}
        /\ k.at # "enters"
    BY <1>1, <1>2, <1>3, <1>5 DEF DevicesTyped, Known, Between
  <2>2. /\ stack' \in [Objects -> Seq(Objects \cup {NoDevice})]
        /\ \A d \in Objects : \A i \in 1..Len(stack'[d]) : stack'[d][i] \in 1..made' \cup {NoDevice}
        /\ inside' \in Seq(Context)
    BY <1>1, <1>4, <1>5 DEF DevicesTyped, Known
  <2>3. QED
    BY <1>1, <1>3, <1>5, <2>1, <2>2, ThreadTyped
<1>7. \A u \in Holding : \/ thread'[u] = thread[u]
                         \/ thread[u].at \notin Between /\ thread'[u].at \notin Between
  BY <1>2, <1>3, <1>6 DEF Place
<1>8. ASSUME ~disturbed'
      PROVE  Nested'
  <2>1. CASE UNCHANGED <<current, base, disturbed>>
    <3>1. Nested
      BY <1>8, <2>1 DEF ContextInvariant
    <3>2. QED
      BY <1>4, <1>7, <2>1, <3>1, AsideKeeps
  <2>2. CASE \E d \in Objects : SetCurrent(d)
    BY <1>4, <1>7, <1>8, <2>2, SetKeeps
  <2>3. UNCHANGED <<current, base, disturbed>> \/ \E d \in Objects : SetCurrent(d)
    BY <1>1 DEF GetDefault, EnumerateDevices, GetSingle, Instantiate, StartRuntime,
           RuntimeStarted, MakeDevice, DevicesTyped
  <2>4. QED
    BY <2>1, <2>2, <2>3
<1>9. QED
  BY <1>6, <1>8 DEF ContextInvariant

LEMMA ShutdownKeeps ==
  ASSUME ContextInvariant, NEW t \in Holding, Shutdown(t)
  PROVE  ContextInvariant'
<1>1. /\ made' = made /\ single' = single /\ current' = current /\ base' = base
      /\ stack' = stack /\ thread' = thread /\ inside' = inside /\ disturbed' = disturbed
  BY DEF Shutdown
<1>2. DevicesTyped'
  BY <1>1 DEF ContextInvariant, DevicesTyped, Known, Place
<1>3. ASSUME Nested PROVE Nested'
  BY <1>1, <1>3, AsideKeeps
<1>4. QED
  BY <1>1, <1>2, <1>3 DEF ContextInvariant

(* Where the innermost context of a thread is, if it has one. *)
LEMMA InnermostInside ==
  ASSUME inside \in Seq(Context), NEW t
  PROVE  Innermost(t) \in 0..Len(inside)
<1> DEFINE I == {i \in 1..Len(inside) : inside[i][1] = t}
<1>1. Len(inside) \in Nat
  BY LenProperties
<1>2. Innermost(t) = IF I # {} THEN Max(I) ELSE 0
  BY DEF Innermost, SelectLastInSeq
<1>3. I \in SUBSET (0..Len(inside)) 
  BY <1>1
<1> HIDE DEF I
<1>4. CASE I # {}
  <2>1. Max(I) \in I
    BY <1>1, <1>3, <1>4, Greatest
  <2>2. QED
    BY <1>2, <1>3, <1>4, <2>1
<1>5. CASE I = {}
  BY <1>1, <1>2, <1>5
<1>6. QED
  BY <1>4, <1>5

LEMMA WithoutOne ==
  ASSUME NEW S, NEW s \in Seq(S), NEW n \in 0..Len(s)
  PROVE  RemoveAt(s, n) \in Seq(S)
<1>1. Len(s) \in Nat /\ \A i \in 1..Len(s) : s[i] \in S
  BY LenProperties, ElementOfSeq
<1>2. SubSeq(s, 1, n - 1) \in Seq(S)
  BY <1>1, SubSeqProperties, Z3
<1>3. SubSeq(s, n + 1, Len(s)) \in Seq(S)
  BY <1>1, SubSeqProperties, Z3
<1>4. QED
  BY <1>2, <1>3, ConcatProperties DEF RemoveAt

(* __enter__() has pushed the current device on the stack of the new one. *)
LEMMA EnterKeeps ==
  ASSUME ContextInvariant, NEW t \in Holding, NEW d \in Objects, Enter(t, d)
  PROVE  ContextInvariant'
<1> DEFINE k == [at |-> "enters", device |-> d, was |-> thread[t].was]
           All == Objects \cup {NoDevice}
<1>1. DevicesTyped
  BY DEF ContextInvariant
<1>2. /\ made' = made /\ single' = single /\ current' = current /\ base' = base
      /\ inside' = inside /\ stack' = [stack EXCEPT ![d] = Append(@, current)]
      /\ thread[t].at = "idle"
  BY DEF Enter, Place
<1>3. thread' = [thread EXCEPT ![t] = k]
  <2>1. thread[t] \in Thread
    BY <1>1 DEF DevicesTyped
  <2>2. [[thread[t] EXCEPT !.at = "enters"] EXCEPT !.device = d] = k
    <3> DEFINE r == [at |-> "enters", device |-> thread[t].device, was |-> thread[t].was]
    <3>1. [thread[t] EXCEPT !.at = "enters"] = r
      BY <2>1 DEF Thread
    <3>2. [r EXCEPT !.device = d] = k
      OBVIOUS
    <3>3. QED
      BY <3>1, <3>2
  <2>3. thread' = [thread EXCEPT ![t] = [[thread[t] EXCEPT !.at = "enters"] EXCEPT !.device = d]]
    BY <1>1 DEF Enter, DevicesTyped
  <2>4. QED
    BY <2>2, <2>3
<1>4. /\ k \in Thread /\ k.at = "enters" /\ k.device = d /\ k.was = thread[t].was
      /\ thread[t].was \in Known
  BY <1>1 DEF Thread, AtThread, DevicesTyped
<1> HIDE DEF k
<1>5. d \in Known /\ made \in Nat
  BY <1>1, ObjectAssumption DEF Enter, DevicesTyped, Known
<1>6. /\ stack \in [Objects -> Seq(All)] /\ current \in Known /\ Known \subseteq All
      /\ inside \in Seq(Context)
  BY <1>1 DEF DevicesTyped, Known
<1>7. /\ stack' \in [Objects -> Seq(All)]
      /\ \A c \in Objects : \A i \in 1..Len(stack'[c]) : stack'[c][i] \in Known
  <2> DEFINE old == stack[d]
             new == Append(old, current)
  <2>1. old \in Seq(All) /\ Len(old) \in Nat
    BY <1>6, LenProperties
  <2>2. /\ new \in Seq(All) /\ Len(new) = Len(old) + 1
        /\ \A i \in 1..Len(old) : new[i] = old[i]
        /\ new[Len(old) + 1] = current
    BY <1>6, <2>1, AppendProperties
  <2>3. stack' = [stack EXCEPT ![d] = new]
    BY <1>2
  <2> HIDE DEF new
  <2>4. \A c \in Objects : stack'[c] = IF c = d THEN new ELSE stack[c]
    BY <1>6, <2>3
  <2>5. \A i \in 1..(Len(old) + 1) : i = Len(old) + 1 \/ i \in 1..Len(old)
    BY <2>1
  <2>6. \A i \in 1..Len(old) : old[i] \in Known
    BY <1>1 DEF DevicesTyped
  <2>7. \A i \in 1..Len(new) : new[i] \in Known
    BY <1>6, <2>2, <2>5, <2>6
  <2>8. stack' \in [Objects -> Seq(All)]
    BY <1>6, <2>2, <2>3
  <2>9. QED
    BY <1>1, <2>4, <2>7, <2>8 DEF DevicesTyped
<1>8. /\ DevicesTyped'
      /\ \A u \in Holding : thread'[u] = IF u = t THEN k ELSE thread[u]
  <2>1. /\ made' \in Nat /\ made <= made' /\ 1..made' \subseteq Objects
        /\ k.device \in 1..made' \cup {NoDevice} /\ k.was \in 1..made' \cup {NoDevice}
        /\ {single', current', base'} \subseteq 1..made' \cup {NoDevice}
        /\ \A c \in Objects : \A i \in 1..Len(stack'[c]) : stack'[c][i] \in 1..made' \cup {NoDevice}
        /\ inside' \in Seq(Context)
    BY <1>1, <1>2, <1>4, <1>5, <1>7 DEF DevicesTyped, Known
  <2>2. k.at = "enters" => k.device \in Objects
    BY <1>4
  <2>3. QED
    BY <1>1, <1>3, <1>4, <1>7, <2>1, <2>2, ThreadTyped
<1>9. ASSUME ~disturbed'
      PROVE  Nested'
  <2> DEFINE list == Append(inside, <<t, d>>)
             n == Len(inside)
  <2>1. Nested /\ \A u \in Holding : thread[u].at \notin Between
    BY <1>9 DEF Enter, ContextInvariant, Amid, Place, Between
  <2>2. Recalled(inside, n, stack, base) /\ current = Beyond(inside, n + 1, base)
    BY <2>1 DEF Nested, AllKept, CurrentFits
  <2>3. <<t, d>> \in Context /\ n \in Nat
    BY <1>6, LenProperties DEF Context
  <2>4. /\ list \in Seq(Context) /\ Len(list) = n + 1
        /\ \A i \in 1..n : list[i] = inside[i]
        /\ list[n + 1] = <<t, d>>
    BY <1>6, <2>3, AppendProperties
  <2> HIDE DEF list, n
  <2>5. Recalled(list, n, stack, base)
    BY <2>2, <2>3, <2>4, KeptAgree
  <2>6. current = Beyond(list, n + 1, base)
    <3>1. n + 1 # 1 => n \in 1..n /\ (n + 1) - 1 = n
      BY <2>3
    <3>2. QED
      BY <2>2, <2>3, <2>4, <3>1 DEF Beyond
  <2>7. stack' = [stack EXCEPT ![list[n + 1][2]] = Append(@, current)]
    BY <1>2, <2>4
  <2>8. Recalled(list, n + 1, stack', base)
    BY <1>6, <2>3, <2>4, <2>5, <2>6, <2>7, KeptByEnter
  <2>9. \A u \in Holding : thread'[u].at \in Between => u = t
    BY <1>8, <2>1
  <2>10. thread'[t].at = "enters" /\ thread'[t].device = d
    BY <1>4, <1>8
  <2>11. EnteringKept'
    <3>1. ASSUME NEW u \in Holding, thread'[u].at = "enters"
          PROVE  Recalled(Append(inside', <<u, thread'[u].device>>), Len(inside') + 1, stack', base')
      <4>1. u = t
        BY <2>9, <3>1 DEF Between
      <4>2. Append(inside', <<u, thread'[u].device>>) = list /\ Len(inside') = n
        BY <1>2, <2>10, <4>1 DEF list, n
      <4>3. QED
        BY <1>2, <2>8, <4>2
    <3>2. QED
      BY <3>1 DEF EnteringKept, Place
  <2>12. OneBetween' /\ AllKept' /\ LeavingKept'
    BY <2>9, <2>10 DEF OneBetween, AllKept, LeavingKept, Place, Between
  <2>13. CurrentFits'
    BY <1>2, <2>1 DEF Nested, CurrentFits
  <2>14. QED
    BY <2>11, <2>12, <2>13 DEF Nested
<1>10. QED
  BY <1>8, <1>9 DEF ContextInvariant

(* __enter__() makes the device the current one. *)
LEMMA EnteredKeeps ==
  ASSUME ContextInvariant, NEW t \in Holding, Entered(t)
  PROVE  ContextInvariant'
<1> DEFINE d == thread[t].device
           list == Append(inside, <<t, d>>)
           n == Len(inside)
<1>1. DevicesTyped
  BY DEF ContextInvariant
<1>2. /\ made' = made /\ single' = single /\ current' = d /\ base' = base
      /\ stack' = stack /\ inside' = list /\ disturbed' = disturbed
      /\ thread[t].at = "enters" /\ Moves(t, "idle")
  BY DEF Entered, Place
<1>3. PICK k \in Thread : /\ thread' = [thread EXCEPT ![t] = k]
                          /\ k.at = "idle" /\ k.device = thread[t].device
                          /\ k.was = thread[t].was
  <2>1. "idle" \in AtThread
    BY DEF AtThread
  <2>2. QED
    BY <1>1, <1>2, <2>1, ThreadAt
<1>4. d \in Objects /\ d \in Known /\ thread[t].was \in Known /\ inside \in Seq(Context)
  BY <1>1, <1>2 DEF DevicesTyped, Place
<1>5. <<t, d>> \in Context /\ n \in Nat
  BY <1>4, LenProperties DEF Context
<1>6. /\ list \in Seq(Context) /\ Len(list) = n + 1
      /\ list[n + 1] = <<t, d>>
  BY <1>4, <1>5, AppendProperties
<1> HIDE DEF list, d, n
<1>7. /\ DevicesTyped'
      /\ \A u \in Holding : thread'[u] = IF u = t THEN k ELSE thread[u]
  <2>1. /\ made' \in Nat /\ made <= made' /\ 1..made' \subseteq Objects
        /\ k.device \in 1..made' \cup {NoDevice} /\ k.was \in 1..made' \cup {NoDevice}
        /\ {single', current', base'} \subseteq 1..made' \cup {NoDevice}
        /\ \A c \in Objects : \A i \in 1..Len(stack'[c]) : stack'[c][i] \in 1..made' \cup {NoDevice}
        /\ inside' \in Seq(Context) /\ stack' \in [Objects -> Seq(Objects \cup {NoDevice})]
    BY <1>1, <1>2, <1>3, <1>4, <1>6 DEF DevicesTyped, Known, d
  <2>2. k.at # "enters"
    BY <1>3
  <2>3. QED
    BY <1>1, <1>3, <2>1, <2>2, ThreadTyped
<1>8. ASSUME ~disturbed'
      PROVE  Nested'
  <2>1. Nested
    BY <1>2, <1>8 DEF ContextInvariant
  <2>2. Recalled(list, n + 1, stack, base)
    BY <1>2, <2>1 DEF Nested, EnteringKept, Place, list, d, n
  <2>3. \A u \in Holding : thread'[u].at \notin Between
    BY <1>2, <1>3, <1>7, <2>1 DEF Nested, OneBetween, Between
  <2>4. AllKept'
    <3>1. Recalled(inside', Len(inside'), stack', base')
      BY <1>2, <1>6, <2>2
    <3>2. QED
      BY <3>1 DEF AllKept
  <2>5. CurrentFits'
    <3>1. (n + 2) - 1 = n + 1 /\ n + 2 # 1 /\ (n + 1) + 1 = n + 2
      BY <1>5
    <3>2. Beyond(list, (n + 1) + 1, base) = d
      BY <1>6, <3>1 DEF Beyond
    <3>3. QED
      BY <1>2, <1>6, <3>2 DEF CurrentFits
  <2>6. OneBetween' /\ EnteringKept' /\ LeavingKept'
    BY <2>3 DEF OneBetween, EnteringKept, LeavingKept, Place, Between
  <2>7. QED
    BY <2>4, <2>5, <2>6 DEF Nested
<1>9. QED
  BY <1>7, <1>8 DEF ContextInvariant

(* __exit__() has popped what was current. *)
LEMMA ExitKeeps ==
  ASSUME ContextInvariant, NEW t \in Holding, Exit(t)
  PROVE  ContextInvariant'
<1> DEFINE n == Innermost(t)
           d == inside[n][2]
           e == Last(stack[d])
           k == [at |-> "exits", device |-> thread[t].device, was |-> e]
           All == Objects \cup {NoDevice}
<1>1. DevicesTyped
  BY DEF ContextInvariant
<1>2. /\ made' = made /\ single' = single /\ current' = current /\ base' = base
      /\ inside' = inside /\ stack' = [stack EXCEPT ![d] = Front(@)]
      /\ thread[t].at = "idle" /\ n # 0 /\ stack[d] # <<>>
      /\ thread' = [thread EXCEPT ![t].at = "exits", ![t].was = e]
  BY DEF Exit, Place
<1>3. n \in 1..Len(inside) /\ d \in Objects /\ inside \in Seq(Context)
  <2>1. inside \in Seq(Context) /\ Len(inside) \in Nat
    BY <1>1, LenProperties DEF DevicesTyped
  <2>2. n \in 1..Len(inside)
    BY <1>2, <2>1, InnermostInside
  <2> HIDE DEF n
  <2>3. inside[n] \in Context
    BY <2>1, <2>2, ElementOfSeq
  <2>4. QED
    BY <2>1, <2>2, <2>3 DEF Context
<1> HIDE DEF n, d
<1>4. /\ stack \in [Objects -> Seq(All)] /\ Known \subseteq All
      /\ \A i \in 1..Len(stack[d]) : stack[d][i] \in Known
  BY <1>1, <1>3 DEF DevicesTyped, Known
<1>5. /\ stack' \in [Objects -> Seq(All)] /\ e \in Known
      /\ \A c \in Objects : \A i \in 1..Len(stack'[c]) : stack'[c][i] \in Known
  <2> DEFINE old == stack[d]
             new == Front(old)
  <2>1. old \in Seq(All) /\ Len(old) \in Nat /\ Len(old) # 0
    BY <1>2, <1>3, <1>4, LenProperties, EmptySeq
  <2>2. /\ new \in Seq(All) /\ Len(new) = Len(old) - 1
        /\ \A i \in 1..(Len(old) - 1) : new[i] = old[i]
    <3>1. new = SubSeq(old, 1, Len(old) - 1)
      BY DEF Front
    <3>2. \A i \in 1..(Len(old) - 1) : old[i] \in All
      BY <2>1, ElementOfSeq
    <3>3. QED
      BY <2>1, <3>1, <3>2, SubSeqProperties
  <2>3. e \in Known
    BY <1>4, <2>1 DEF Last
  <2>4. stack' = [stack EXCEPT ![d] = new]
    BY <1>2
  <2> HIDE DEF new
  <2>5. \A c \in Objects : stack'[c] = IF c = d THEN new ELSE stack[c]
    BY <1>4, <2>4
  <2>6. \A i \in 1..Len(new) : new[i] \in Known
    <3>1. \A i \in 1..(Len(old) - 1) : old[i] \in Known
      BY <1>4, <2>1
    <3>2. QED
      BY <2>2, <3>1
  <2>7. stack' \in [Objects -> Seq(All)]
    BY <1>4, <2>2, <2>4
  <2>8. QED
    BY <1>1, <2>3, <2>5, <2>6, <2>7 DEF DevicesTyped
<1> HIDE DEF e
<1>6. thread' = [thread EXCEPT ![t] = k]
  <2>1. thread[t] \in Thread
    BY <1>1 DEF DevicesTyped
  <2>2. [[thread[t] EXCEPT !.at = "exits"] EXCEPT !.was = e] = k
    <3> DEFINE r == [at |-> "exits", device |-> thread[t].device, was |-> thread[t].was]
    <3>1. [thread[t] EXCEPT !.at = "exits"] = r
      BY <2>1 DEF Thread
    <3>2. [r EXCEPT !.was = e] = k
      OBVIOUS
    <3>3. QED
      BY <3>1, <3>2
  <2>3. thread' = [thread EXCEPT ![t] = [[thread[t] EXCEPT !.at = "exits"] EXCEPT !.was = e]]
    BY <1>1, <1>2 DEF DevicesTyped
  <2>4. QED
    BY <2>2, <2>3
<1>7. /\ k \in Thread /\ k.at = "exits" /\ k.device = thread[t].device /\ k.was = e
      /\ thread[t].device \in Known
  BY <1>1, <1>4, <1>5 DEF Thread, AtThread, DevicesTyped
<1> HIDE DEF k
<1>8. /\ DevicesTyped'
      /\ \A u \in Holding : thread'[u] = IF u = t THEN k ELSE thread[u]
  <2>1. /\ made' \in Nat /\ made <= made' /\ 1..made' \subseteq Objects
        /\ k.device \in 1..made' \cup {NoDevice} /\ k.was \in 1..made' \cup {NoDevice}
        /\ {single', current', base'} \subseteq 1..made' \cup {NoDevice}
        /\ \A c \in Objects : \A i \in 1..Len(stack'[c]) : stack'[c][i] \in 1..made' \cup {NoDevice}
        /\ inside' \in Seq(Context)
    BY <1>1, <1>2, <1>5, <1>7 DEF DevicesTyped, Known
  <2>2. k.at # "enters"
    BY <1>7
  <2>3. QED
    BY <1>1, <1>5, <1>6, <1>7, <2>1, <2>2, ThreadTyped
<1>9. ASSUME ~disturbed'
      PROVE  Nested'
  <2>1. Nested /\ n = Len(inside) /\ \A u \in Holding : thread[u].at \notin Between
    BY <1>9 DEF Exit, ContextInvariant, Amid, Place, Between, n
  <2>2. Recalled(inside, n, stack, base)
    BY <2>1 DEF Nested, AllKept
  <2>3. n - 1 \in Nat /\ (n - 1) + 1 = n /\ Len(inside) # 0 /\ Len(inside) \in Nat
    BY <1>3, LenProperties
  <2>4. stack' = [stack EXCEPT ![inside[n][2]] = Front(@)]
    BY <1>2 DEF d
  <2>5. Recalled(inside, n - 1, stack', base) /\ e = Beyond(inside, n, base)
    <3> DEFINE m == n - 1
    <3>1. /\ m \in Nat /\ m + 1 = Len(inside) /\ Recalled(inside, m + 1, stack, base)
          /\ stack' = [stack EXCEPT ![inside[m + 1][2]] = Front(@)]
          /\ d = inside[m + 1][2]
      BY <2>1, <2>2, <2>3, <2>4 DEF d
    <3> HIDE DEF m
    <3>2. /\ Recalled(inside, m, stack', base)
          /\ Last(stack[inside[m + 1][2]]) = Beyond(inside, m + 1, base)
      BY <1>3, <1>4, <3>1, KeptByExit
    <3>3. QED
      BY <2>3, <3>1, <3>2 DEF m, e
  <2>6. \A u \in Holding : thread'[u].at \in Between => u = t
    BY <1>8, <2>1
  <2>7. thread'[t].at = "exits" /\ thread'[t].was = e
    BY <1>7, <1>8
  <2>8. LeavingKept'
    <3>1. Innermost(t)' = Innermost(t)
      BY <1>2 DEF Innermost, SelectLastInSeq
    <3>2. /\ Len(inside') # 0 /\ Innermost(t)' = Len(inside')
          /\ Recalled(inside', Len(inside') - 1, stack', base')
          /\ thread'[t].was = Beyond(inside', Len(inside'), base')
      BY <1>2, <2>1, <2>3, <2>5, <2>7, <3>1 DEF n
    <3>3. QED
      BY <2>6, <3>2 DEF LeavingKept, Place, Between
  <2>9. OneBetween' /\ AllKept' /\ EnteringKept'
    BY <2>6, <2>7 DEF OneBetween, AllKept, EnteringKept, Place, Between
  <2>10. CurrentFits'
    BY <1>2, <2>1 DEF Nested, CurrentFits
  <2>11. QED
    BY <2>8, <2>9, <2>10 DEF Nested
<1>10. QED
  BY <1>8, <1>9 DEF ContextInvariant

(* __exit__() makes it the current device again. *)
LEMMA ExitedKeeps ==
  ASSUME ContextInvariant, NEW t \in Holding, Exited(t)
  PROVE  ContextInvariant'
<1> DEFINE n == Innermost(t)
           e == thread[t].was
           list == RemoveAt(inside, n)
<1>1. DevicesTyped
  BY DEF ContextInvariant
<1>2. /\ made' = made /\ single' = single /\ current' = e /\ base' = base
      /\ stack' = stack /\ inside' = list /\ disturbed' = disturbed
      /\ thread[t].at = "exits" /\ Moves(t, "idle")
  BY DEF Exited, Place
<1>3. PICK k \in Thread : /\ thread' = [thread EXCEPT ![t] = k]
                          /\ k.at = "idle" /\ k.device = thread[t].device
                          /\ k.was = thread[t].was
  <2>1. "idle" \in AtThread
    BY DEF AtThread
  <2>2. QED
    BY <1>1, <1>2, <2>1, ThreadAt
<1>4. thread[t].device \in Known /\ e \in Known /\ inside \in Seq(Context)
  BY <1>1 DEF DevicesTyped
<1>5. n \in 0..Len(inside)
  BY <1>4, InnermostInside
<1> HIDE DEF n, e
<1>6. list \in Seq(Context)
  BY <1>4, <1>5, WithoutOne
<1> HIDE DEF list
<1>7. /\ DevicesTyped'
      /\ \A u \in Holding : thread'[u] = IF u = t THEN k ELSE thread[u]
  <2>1. /\ made' \in Nat /\ made <= made' /\ 1..made' \subseteq Objects
        /\ k.device \in 1..made' \cup {NoDevice} /\ k.was \in 1..made' \cup {NoDevice}
        /\ {single', current', base'} \subseteq 1..made' \cup {NoDevice}
        /\ \A c \in Objects : \A i \in 1..Len(stack'[c]) : stack'[c][i] \in 1..made' \cup {NoDevice}
        /\ inside' \in Seq(Context) /\ stack' \in [Objects -> Seq(Objects \cup {NoDevice})]
    BY <1>1, <1>2, <1>3, <1>4, <1>6 DEF DevicesTyped, Known, e
  <2>2. k.at # "enters"
    BY <1>3
  <2>3. QED
    BY <1>1, <1>3, <2>1, <2>2, ThreadTyped
<1>8. ASSUME ~disturbed'
      PROVE  Nested'
  <2>1. Nested
    BY <1>2, <1>8 DEF ContextInvariant
  <2>2. /\ Len(inside) # 0 /\ n = Len(inside)
        /\ Recalled(inside, Len(inside) - 1, stack, base)
        /\ e = Beyond(inside, Len(inside), base)
    BY <1>2, <2>1 DEF Nested, LeavingKept, Place, n, e
  <2>3. n \in 1..Len(inside) /\ n - 1 \in Nat
    BY <1>5, <2>2
  <2>4. /\ DOMAIN list = 1..(n - 1)
        /\ \A j \in 1..(n - 1) : list[j] = inside[j]
    <3>1. /\ DOMAIN list = 1..(Len(inside) - 1)
          /\ \A j \in 1..(Len(inside) - 1) :
               list[j] = IF j < n THEN inside[j] ELSE inside[j + 1]
      BY <1>4, <2>3, RemoveAtKeeps DEF list
    <3>2. QED
      BY <2>2, <2>3, <3>1
  <2>5. Len(list) = n - 1
    <3>1. DOMAIN list = 1..Len(list) /\ Len(list) \in Nat
      BY <1>6, LenProperties
    <3>2. \A i \in Int : 1 <= i /\ i <= Len(list) <=> 1 <= i /\ i <= n - 1
      <4>1. 1..Len(list) = 1..(n - 1)
        BY <2>4, <3>1
      <4>2. QED
        BY <2>3, <3>1, <4>1
    <3>3. QED
      BY <2>3, <3>1, <3>2
  <2>6. Recalled(list, n - 1, stack, base)
    <3> DEFINE m == n - 1
    <3>1. m \in Nat /\ Recalled(inside, m, stack, base) /\ \A j \in 1..m : inside[j] = list[j]
      BY <2>2, <2>3, <2>4
    <3> HIDE DEF m
    <3>2. Recalled(list, m, stack, base)
      BY <3>1, KeptAgree
    <3>3. QED
      BY <3>2 DEF m
  <2>7. \A u \in Holding : thread'[u].at \notin Between
    BY <1>2, <1>3, <1>7, <2>1 DEF Nested, OneBetween, Between
  <2>8. AllKept'
    <3>1. Recalled(inside', Len(inside'), stack', base')
      BY <1>2, <2>5, <2>6
    <3>2. QED
      BY <3>1 DEF AllKept
  <2>9. CurrentFits'
    <3>1. (n - 1) + 1 = n /\ (n # 1 => n - 1 \in 1..(n - 1))
      BY <2>3
    <3>2. Beyond(list, n, base) = e
      BY <2>2, <2>4, <3>1 DEF Beyond
    <3>3. QED
      BY <1>2, <2>5, <3>1, <3>2 DEF CurrentFits
  <2>10. OneBetween' /\ EnteringKept' /\ LeavingKept'
    BY <2>7 DEF OneBetween, EnteringKept, LeavingKept, Place, Between
  <2>11. QED
    BY <2>8, <2>9, <2>10 DEF Nested
<1>9. QED
  BY <1>7, <1>8 DEF ContextInvariant

LEMMA ContextsStep ==
  ContextInvariant /\ [CurrentDeviceNext]_deviceVars => ContextInvariant'
<1> SUFFICES ASSUME ContextInvariant, [CurrentDeviceNext]_deviceVars
             PROVE  ContextInvariant'
  OBVIOUS
<1>1. CASE UNCHANGED deviceVars
  <2>1. /\ made' = made /\ single' = single /\ current' = current /\ base' = base
        /\ stack' = stack /\ thread' = thread /\ inside' = inside /\ disturbed' = disturbed
    BY <1>1 DEF deviceVars
  <2>2. DevicesTyped'
    BY <2>1 DEF ContextInvariant, DevicesTyped, Known, Place
  <2>3. ASSUME Nested PROVE Nested'
    BY <2>1, <2>3, AsideKeeps
  <2>4. QED
    BY <2>1, <2>2, <2>3 DEF ContextInvariant
<1>2. ASSUME NEW t \in Holding,
             \/ GetDefault(t) \/ EnumerateDevices(t) \/ GetSingle(t) \/ Instantiate(t)
             \/ StartRuntime(t) \/ RuntimeStarted(t)
      PROVE  ContextInvariant'
  BY <1>2, LookingKeeps
<1>3. ASSUME NEW t \in Holding, Shutdown(t)
      PROVE  ContextInvariant'
  BY <1>3, ShutdownKeeps
<1>4. ASSUME NEW t \in Holding, NEW d \in Objects, Enter(t, d)
      PROVE  ContextInvariant'
  BY <1>4, EnterKeeps
<1>5. ASSUME NEW t \in Holding, Entered(t) \/ Exit(t) \/ Exited(t)
      PROVE  ContextInvariant'
  BY <1>5, EnteredKeeps, ExitKeeps, ExitedKeeps
<1>6. QED
  BY <1>1, <1>2, <1>3, <1>4, <1>5 DEF CurrentDeviceNext

(* The invariant says what is current, in the words of the property. *)
LEMMA CurrentIsRestored == ContextInvariant => ContextRestored
<1> SUFFICES ASSUME ContextInvariant, ~disturbed
             PROVE  current = IF inside = <<>> THEN base ELSE Last(inside)[2]
  BY DEF ContextRestored
<1>1. inside \in Seq(Context) /\ current = Beyond(inside, Len(inside) + 1, base)
  BY DEF ContextInvariant, Nested, DevicesTyped, CurrentFits
<1>2. Len(inside) \in Nat /\ (inside = <<>> <=> Len(inside) = 0)
  BY <1>1, LenProperties, EmptySeq
<1>3. (Len(inside) + 1) - 1 = Len(inside) /\ (Len(inside) + 1 = 1 <=> Len(inside) = 0)
  BY <1>2
<1>4. QED
  BY <1>1, <1>2, <1>3 DEF Beyond, Last

LEMMA DevicesAreTyped == ContextInvariant => CurrentDeviceTypeOK
<1> SUFFICES ASSUME DevicesTyped PROVE CurrentDeviceTypeOK
  BY DEF ContextInvariant
<1>1. made \in Objects \cup {0}
  <2>1. made \in Nat /\ 1..made \subseteq Objects
    BY DEF DevicesTyped
  <2>2. made # 0 => made \in 1..made
    BY <2>1
  <2>3. QED
    BY <2>1, <2>2
<1>2. ASSUME NEW d \in Objects
      PROVE  ToSet(stack[d]) \subseteq (1..made) \cup {NoDevice}
  <2>1. stack[d] \in Seq(Objects \cup {NoDevice})
    BY DEF DevicesTyped
  <2>2. DOMAIN stack[d] = 1..Len(stack[d])
    BY <2>1, LenProperties
  <2>3. QED
    BY <2>2 DEF ToSet, DevicesTyped, Known
<1>3. QED
  BY <1>1, <1>2 DEF CurrentDeviceTypeOK, DevicesTyped, Known

(* For any devices and threads: while contexts are left in the reverse order of
   entering, leaving one restores what was current. *)
THEOREM ContextsRestored == CurrentDeviceSpec => []ContextRestored
  BY ContextsStart, ContextsStep, CurrentIsRestored, PTL DEF CurrentDeviceSpec
-----------------------------------------------------------------------------
(* The schedules of the rate of learning. *)

SchedulerState == [kind : Kinds, epoch : Int, base : Int, cur : Int, length : Nat \ {0}]

ScheduleInvariant ==
  /\ world \in WorldSizes /\ trainer \in WorldSizes /\ lr \in Int
  /\ set \in [lr : Int, world : WorldSizes]
  /\ scheduler # NoScheduler => scheduler \in SchedulerState
  /\ saved # NoScheduler => saved \in [lr : Int, epoch : Int]
  /\ RateScaled

(* Exact division can be undone. *)
LEMMA DividedExactly ==
  ASSUME NEW num \in Int, NEW t \in Nat \ {0}, num % t = 0
  PROVE  num \div t \in Int /\ (num \div t) * t = num
  OBVIOUS

LEMMA Cancelled ==
  ASSUME NEW num \in Int, NEW y \in Int, NEW t \in Nat \ {0}, num * t = y * t
  PROVE  num = y
  OBVIOUS

\* a is to t what b is to s.
Ratio(a, t, b, s) == a * s = b * t

(* Two ratios, one after the other. *)
LEMMA Rescaled ==
  ASSUME NEW a \in Int, NEW b \in Int, NEW c \in Int, NEW s \in Int, NEW w \in Int,
         NEW t \in Nat \ {0}, Ratio(a, t, b, s), Ratio(c, w, a, t)
  PROVE  Ratio(c, w, b, s)
<1>0. a * s = b * t /\ c * t = a * w
  BY DEF Ratio
<1>1. (c * s) * t = (c * t) * s /\ (a * w) * s = (a * s) * w /\ (b * t) * w = (b * w) * t
  OBVIOUS
<1>2. (c * s) * t = (b * w) * t
  BY <1>0, <1>1
<1>3. c * s \in Int /\ b * w \in Int
  OBVIOUS
<1>4. QED
  BY <1>2, <1>3, Cancelled DEF Ratio

LEMMA WaveIsNumber ==
  ASSUME NEW k \in Int, NEW n \in Nat \ {0}
  PROVE  Wave(k, n) \in Int
<1>1. ((k * 4) \div n) % 8 \in 0..7
  <2>1. (k * 4) \div n \in Int
    OBVIOUS
  <2>2. QED
    BY <2>1
<1>2. PICK i \in 1..8 : i = (((k * 4) \div n) % 8) + 1
  BY <1>1
<1>3. Wave(k, n) = <<1000, 853, 500, 146, 0, 146, 500, 853>>[i]
  BY <1>2 DEF Wave
<1>4. QED
  BY <1>3

LEMMA ShareIsNumber ==
  ASSUME NEW r \in Int, NEW p \in Int
  PROVE  Share(r, p) \in Int
  BY DEF Share

(* Every scheduler gives a number. *)
LEMMA RateIsNumber ==
  ASSUME ScheduleInvariant, NEW s \in SchedulerState
  PROVE  GetLR(s) \in Int
<1>1. lr \in Int /\ BaseLR \in Int /\ s.epoch \in Int /\ s.base \in Int /\ s.cur \in Int
      /\ s.length \in Nat \ {0} /\ s.kind \in Kinds
  BY ScheduleAssumption DEF ScheduleInvariant, SchedulerState
<1>2. StepLR(s) \in Int
  BY <1>1 DEF StepLR
<1>3. CosineAnnealingLR(s) \in Int
  <2>1. Wave(s.epoch, 4) \in Int
    BY <1>1, WaveIsNumber
  <2>2. Share(s.base, Wave(s.epoch, 4)) \in Int
    BY <1>1, <2>1, ShareIsNumber
  <2>3. QED
    BY <1>1, <2>2 DEF CosineAnnealingLR, TMax
<1>4. WarmRestarts(s) \in Int
  BY <1>1, WaveIsNumber, ShareIsNumber DEF WarmRestarts
<1>5. OneCycleLR(s) \in Int
  BY <1>1 DEF OneCycleLR, WarmupSteps, DivFactor
<1>6. WarmupLR(s) \in Int
  BY <1>1 DEF WarmupLR, WarmupSteps, TotalSteps
<1>7. QED
  BY <1>1, <1>2, <1>3, <1>4, <1>5, <1>6 DEF GetLR, Kinds

(* A rate that is set is not scaled yet. *)
LEMMA SetIsUnscaled ==
  ASSUME ScheduleInvariant, NEW rate \in Int, Set(rate), trainer' = trainer,
         world' = world, saved' = saved,
         scheduler' = NoScheduler \/ scheduler' \in SchedulerState
  PROVE  ScheduleInvariant'
<1>1. lr' = rate /\ set' = [lr |-> rate, world |-> trainer]
  BY DEF Set
<1>2. set' \in [lr : Int, world : WorldSizes] /\ set'.lr = rate /\ set'.world = trainer
  BY <1>1 DEF ScheduleInvariant
<1>3. QED
  BY <1>1, <1>2 DEF ScheduleInvariant, RateScaled

LEMMA SteppedKeeps ==
  ASSUME ScheduleInvariant, NEW s \in SchedulerState, Stepped(s)
  PROVE  ScheduleInvariant'
  BY RateIsNumber, SetIsUnscaled DEF Stepped

LEMMA RestartedKeeps ==
  ASSUME NEW s \in SchedulerState
  PROVE  [Restarted(s) EXCEPT !.epoch = @ + 1] \in SchedulerState
<1>1. Restarted(s) \in SchedulerState
  <2>1. CASE s.kind # "restarts"
    BY <2>1 DEF Restarted
  <2>2. CASE s.kind = "restarts" /\ s.cur + 1 < s.length
    <3>1. Restarted(s) = [s EXCEPT !.cur = @ + 1]
      BY <2>2 DEF Restarted
    <3>2. QED
      BY <3>1 DEF SchedulerState
  <2>3. CASE s.kind = "restarts" /\ ~(s.cur + 1 < s.length)
    <3>1. Restarted(s) = [s EXCEPT !.cur = 0, !.length = @ * 2]
      BY <2>3 DEF Restarted
    <3>2. PICK n \in Nat \ {0} : n = s.length * 2
      BY DEF SchedulerState
    <3>3. PICK k : k = [s EXCEPT !.cur = 0]
      OBVIOUS
    <3>4. k \in SchedulerState
      BY <3>3 DEF SchedulerState
    <3>5. Restarted(s) = [k EXCEPT !.length = n]
      BY <3>1, <3>2, <3>3 DEF SchedulerState
    <3>6. QED
      BY <3>4, <3>5 DEF SchedulerState
  <2>4. QED
    BY <2>1, <2>2, <2>3
<1>2. PICK r \in SchedulerState : r = Restarted(s)
  BY <1>1
<1>3. [r EXCEPT !.epoch = @ + 1] \in SchedulerState
  BY DEF SchedulerState
<1>4. QED
  BY <1>2, <1>3

LEMMA ScheduleStarts == ScheduleInit => ScheduleInvariant
<1> SUFFICES ASSUME ScheduleInit PROVE ScheduleInvariant
  OBVIOUS
<1>1. set \in [lr : Int, world : WorldSizes] /\ set.lr = BaseLR /\ set.world = world
  BY ScheduleAssumption DEF ScheduleInit
<1>2. QED
  BY <1>1, ScheduleAssumption DEF ScheduleInit, ScheduleInvariant, RateScaled

LEMMA ScheduleStep == ScheduleInvariant /\ [ScheduleNext]_scheduleVars => ScheduleInvariant'
<1> SUFFICES ASSUME ScheduleInvariant, [ScheduleNext]_scheduleVars PROVE ScheduleInvariant'
  OBVIOUS
<1>1. CASE SchedulerStep
  <2>1. scheduler \in SchedulerState
    BY <1>1 DEF SchedulerStep, ScheduleInvariant
  <2>2. QED
    BY <1>1, <2>1, RestartedKeeps, SteppedKeeps DEF SchedulerStep
<1>2. ASSUME NEW epoch \in 0..MaxEpoch, SchedulerStepTo(epoch) PROVE ScheduleInvariant'
  <2> DEFINE s == [scheduler EXCEPT !.epoch = epoch,
                     !.cur = IF scheduler.kind = "restarts" THEN epoch ELSE @]
  <2>1. s \in SchedulerState
    <3>1. scheduler \in SchedulerState /\ epoch \in Int
      BY <1>2, ScheduleAssumption DEF SchedulerStepTo, ScheduleInvariant
    <3>2. QED
      BY <3>1 DEF SchedulerState
  <2>2. Stepped(s)
    BY <1>2 DEF SchedulerStepTo
  <2>3. QED
    BY <2>1, <2>2, SteppedKeeps
<1>3. ASSUME NEW k \in Kinds, NEW last \in {-1, 0}, NewScheduler(k, last)
      PROVE  ScheduleInvariant'
  <2> DEFINE s == [kind |-> k, epoch |-> last, base |-> lr, cur |-> last, length |-> 2]
  <2>1. s \in SchedulerState
    BY DEF ScheduleInvariant, SchedulerState
  <2>2. CASE last # -1
    <3>1. Stepped([Restarted(s) EXCEPT !.epoch = @ + 1])
      BY <1>3, <2>2 DEF NewScheduler
    <3>2. QED
      BY <2>1, <3>1, RestartedKeeps, SteppedKeeps
  <2>3. CASE last = -1
    <3>1. scheduler' = s /\ UNCHANGED <<lr, saved, world, trainer, set>>
      BY <1>3, <2>3 DEF NewScheduler
    <3>2. QED
      BY <2>1, <3>1 DEF ScheduleInvariant, RateScaled
  <2>4. QED
    BY <2>2, <2>3
<1>4. CASE SchedulerStateDict
  <2>1. saved' \in [lr : Int, epoch : Int]
    BY <1>4 DEF SchedulerStateDict, ScheduleInvariant, SchedulerState
  <2>2. QED
    BY <1>4, <2>1 DEF SchedulerStateDict, ScheduleInvariant, RateScaled
<1>5. CASE NewOptimizer
  BY <1>5, SetIsUnscaled, ScheduleAssumption DEF NewOptimizer
<1>6. CASE LoadOptimizer
  <2>1. saved.lr \in Int /\ (scheduler = NoScheduler \/ scheduler \in SchedulerState)
    BY <1>6 DEF LoadOptimizer, ScheduleInvariant
  <2>2. QED
    BY <1>6, <2>1, SetIsUnscaled DEF LoadOptimizer
<1>7. CASE LoadScheduler
  <2>1. scheduler' \in SchedulerState
    BY <1>7 DEF LoadScheduler, ScheduleInvariant, SchedulerState
  <2>2. QED
    BY <1>7, <2>1 DEF LoadScheduler, ScheduleInvariant, RateScaled
<1>8. ASSUME NEW n \in WorldSizes, Resize(n) PROVE ScheduleInvariant'
  BY <1>8 DEF Resize, ScheduleInvariant, RateScaled
<1>9. CASE HandleWorkerChange
  <2>1. /\ lr \in Int /\ set.lr \in Int /\ set.world \in Int /\ world \in Int
        /\ trainer \in Nat \ {0} /\ world \in WorldSizes
    <3>1. set.world \in WorldSizes /\ set.lr \in Int
      BY DEF ScheduleInvariant
    <3>2. world \in WorldSizes /\ trainer \in WorldSizes /\ lr \in Int
      BY DEF ScheduleInvariant
    <3>3. \A n \in WorldSizes : n \in Int /\ n \in Nat \ {0}
      BY ScheduleAssumption
    <3>4. QED
      BY <3>1, <3>2, <3>3
  <2>2. lr * world \in Int
    BY <2>1
  <2>3. lr' \in Int /\ lr' * trainer = lr * world
    BY <1>9, <2>1, <2>2, DividedExactly DEF HandleWorkerChange
  <2>4. lr * set.world = set.lr * trainer
    BY DEF ScheduleInvariant, RateScaled
  <2>5. lr' * set.world = set.lr * world
    <3>1. Ratio(lr, trainer, set.lr, set.world) /\ Ratio(lr', world, lr, trainer)
      BY <2>3, <2>4 DEF Ratio
    <3>2. Ratio(lr', world, set.lr, set.world)
      BY <2>1, <2>3, <3>1, Rescaled
    <3>3. QED
      BY <3>2 DEF Ratio
  <2>6. QED
    BY <1>9, <2>1, <2>3, <2>5 DEF HandleWorkerChange, ScheduleInvariant, RateScaled
<1>10. CASE Restart
  <2>1. /\ set' \in [lr : Int, world : WorldSizes] /\ set'.lr = BaseLR /\ set'.world = world
        /\ lr' = BaseLR /\ trainer' = world
    BY <1>10, ScheduleAssumption DEF Restart, ScheduleInvariant
  <2>2. QED
    BY <1>10, <2>1, ScheduleAssumption DEF Restart, ScheduleInvariant, RateScaled
<1>11. CASE UNCHANGED scheduleVars
  BY <1>11 DEF scheduleVars, ScheduleInvariant, RateScaled
<1>12. QED
  BY <1>1, <1>2, <1>3, <1>4, <1>5, <1>6, <1>7, <1>8, <1>9, <1>10, <1>11 DEF ScheduleNext

(* For any schedulers, steps, changes of the workers, restores and restarts: the rate is
   the one set last, times the trainer's workers over the workers when it was set. *)
THEOREM RatesStayScaled == ScheduleSpec => []RateScaled
<1>1. ScheduleInvariant => RateScaled
  BY DEF ScheduleInvariant
<1>2. QED
  BY <1>1, ScheduleStarts, ScheduleStep, PTL DEF ScheduleSpec
-----------------------------------------------------------------------------
(* The optimizers. *)

StateRecord == [of : Groups, step : Nat]
StateMap == [Groups -> Nat \cup {NoState}]
Accumulated == [state : StateMap, states : Seq(StateRecord)]
GroupCount == Cardinality(Groups)

LEMMA GroupsAreCounted == GroupCount \in Nat /\ Groups = 1..GroupCount
  BY OptimizerAssumption DEF GroupCount

(* One run of step() of the optimizer o. *)
Run(o, basis) == FoldLeft(LAMBDA acc, g : StepOne(o, acc, g), basis,
                         [g \in 1..Cardinality(Groups) |-> g])
Runs(o, basis, c) ==
  c = [s \in SUBSET (DOMAIN [g \in 1..Cardinality(Groups) |-> g]) |->
         IF s = {} THEN basis
         ELSE StepOne(o, c[s \ {Max(s)}], [g \in 1..Cardinality(Groups) |-> g][Max(s)])]

LEMMA RunUnfolds ==
  ASSUME NEW o, NEW basis
  PROVE  Run(o, basis) =
           (CHOOSE c : Runs(o, basis, c))[DOMAIN [g \in 1..Cardinality(Groups) |-> g]]
  BY DEF Run, FoldLeft, MapThenFoldSet, Runs

LEMMA RunReaches ==
  ASSUME NEW o, NEW A, NEW basis \in A,
         \A k \in 1..GroupCount, a \in A : StepOne(o, a, k) \in A
  PROVE  Run(o, basis) \in A
<1> DEFINE n == GroupCount
           listed == [g \in 1..Cardinality(Groups) |-> g]
           step == [p \in (1..n) \X A |-> StepOne(o, p[2], p[1])]
           c == CHOOSE c : Runs(o, basis, c)
           h == [k \in 0..n |-> c[1..k]]
<1>1. n \in Nat /\ DOMAIN listed = 1..n /\ \A k \in 1..n : listed[k] = k
  BY GroupsAreCounted DEF GroupCount
<1>2. \A k \in 1..n, a \in A : step[<<k, a>>] = StepOne(o, a, k)
  OBVIOUS
<1>3. PICK g \in [SUBSET (1..n) -> A] : Folds(basis, step, n, g)
  <2> HIDE DEF step, n
  <2>1. \A k \in 1..n, a \in A : step[<<k, a>>] \in A
    BY <1>2 DEF n
  <2>2. QED
    BY <1>1, <2>1, FoldExists
<1>4. Runs(o, basis, g)
  <2>1. ASSUME NEW s \in SUBSET (1..n), s # {}
        PROVE  step[<<Max(s), g[s \ {Max(s)}]>>] = StepOne(o, g[s \ {Max(s)}], listed[Max(s)])
    <3>1. Max(s) \in 1..n
      BY <1>1, <2>1, GreatestOf
    <3>2. s \ {Max(s)} \in SUBSET (1..n)
      OBVIOUS
    <3>3. g[s \ {Max(s)}] \in A
      BY <3>2
    <3>4. QED
      BY <1>1, <1>2, <3>1, <3>3
  <2> HIDE DEF step
  <2>2. QED
    BY <1>1, <1>3, <2>1 DEF Runs, Folds
<1>5. Runs(o, basis, c)
  <2> HIDE DEF step
  <2>1. \E d : Runs(o, basis, d)
    BY <1>4
  <2>2. QED
    BY <2>1
<1> HIDE DEF step, c
<1>6. c[{}] = basis /\ \A k \in 1..n : c[1..k] = StepOne(o, c[1..(k - 1)], k)
  <2>1. c[{}] = basis
    BY <1>5 DEF Runs
  <2>2. ASSUME NEW k \in 1..n PROVE c[1..k] = StepOne(o, c[1..(k - 1)], k)
    <3>1. /\ 1..k \in SUBSET (1..n) /\ 1..k # {}
          /\ Max(1..k) = k /\ (1..k) \ {k} = 1..(k - 1)
      BY <1>1, PrefixEnds
    <3>2. QED
      BY <1>1, <1>5, <3>1 DEF Runs
  <2>3. QED
    BY <2>1, <2>2
<1>7. h[n] \in A
  <2>1. h[0] = basis /\ \A k \in 1..n : h[k] = StepOne(o, h[k - 1], k)
    BY <1>1, <1>6
  <2> HIDE DEF h
  <2>2. \A k \in 1..n : h[k - 1] \in A => h[k] \in A
    BY <2>1
  <2>3. QED
    BY <1>1, <2>1, <2>2, FoldStays
<1>8. Run(o, basis) = h[n]
  BY <1>1, RunUnfolds DEF c
<1>9. QED
  BY <1>7, <1>8

-----------------------------------------------------------------------------
\* The states that an optimizer or a dictionary has are in the list, each made for its
\* parameter.
Follows(st, all) ==
  \A g \in Groups : st[g] # NoState =>
    st[g] \in DOMAIN all /\ all[st[g]].of = g /\ (kind = "adam" => all[st[g]].step > 0)

\* What stays true of the states made so far.
Lasts(all, later) ==
  \A s \in DOMAIN all : /\ s \in DOMAIN later /\ later[s].of = all[s].of
                        /\ kind = "adam" /\ all[s].step > 0 => later[s].step > 0

OptimizerInvariant ==
  /\ moves \in Nat /\ states \in Seq(StateRecord)
  /\ optimizer \in [Optimizers -> [move : Nat, state : StateMap]]
  /\ \A o \in Optimizers : Follows(optimizer[o].state, states)
  /\ dict # NoState => dict \in StateMap /\ Follows(dict, states)

LEMMA CountIsNumber ==
  ASSUME NEW n \in Nat
  PROVE  Count(n) \in Nat /\ (kind = "adam" => Count(n) > 0)
  BY DEF Count

LEMMA FollowsLater ==
  ASSUME NEW st, NEW all, NEW later, Follows(st, all), Lasts(all, later)
  PROVE  Follows(st, later)
  BY DEF Follows, Lasts

\* What holds between two parameters of the loop.
Stepping(all) ==
  {acc \in Accumulated : Follows(acc.state, acc.states) /\ Lasts(all, acc.states)}

(* A parameter without a state gets one that is made for it. *)
LEMMA StateIsMade ==
  ASSUME NEW all, NEW acc \in Stepping(all), NEW g \in Groups,
         NEW r \in Accumulated,
         r.state = [acc.state EXCEPT ![g] = Len(acc.states) + 1],
         r.states = Append(acc.states, [of |-> g, step |-> Count(0)])
  PROVE  r \in Stepping(all)
<1>1. /\ acc.states \in Seq(StateRecord) /\ acc.state \in StateMap
      /\ Follows(acc.state, acc.states) /\ Lasts(all, acc.states)
  BY DEF Stepping, Accumulated
<1>2. PICK n \in Nat : n = Len(acc.states) /\ DOMAIN acc.states = 1..n
  BY <1>1, LenProperties
<1>3. PICK e \in StateRecord : e = [of |-> g, step |-> Count(0)]
  BY CountIsNumber DEF StateRecord
<1>4. /\ DOMAIN r.states = 1..(n + 1) /\ r.states[n + 1] = e
      /\ \A s \in 1..n : r.states[s] = acc.states[s]
  <2>1. /\ Append(acc.states, e) \in Seq(StateRecord) /\ Len(Append(acc.states, e)) = n + 1
        /\ \A s \in 1..n : Append(acc.states, e)[s] = acc.states[s]
        /\ Append(acc.states, e)[n + 1] = e
    BY <1>1, <1>2, AppendProperties
  <2>2. r.states = Append(acc.states, e)
    BY <1>3
  <2>3. QED
    BY <2>1, <2>2, LenProperties
<1>5. Lasts(acc.states, r.states)
  BY <1>2, <1>4 DEF Lasts
<1>6. Lasts(all, r.states)
  BY <1>1, <1>5 DEF Lasts
<1>7. Follows(r.state, r.states)
  <2>1. ASSUME NEW k \in Groups, r.state[k] # NoState
        PROVE  /\ r.state[k] \in DOMAIN r.states /\ r.states[r.state[k]].of = k
               /\ kind = "adam" => r.states[r.state[k]].step > 0
    <3>1. CASE k = g
      <4>1. r.state[k] = n + 1
        BY <1>1, <1>2, <3>1 DEF StateMap
      <4>2. e.of = k /\ (kind = "adam" => e.step > 0)
        BY <1>3, <3>1, CountIsNumber
      <4>3. QED
        BY <1>4, <4>1, <4>2
    <3>2. CASE k # g
      <4>1. r.state[k] = acc.state[k]
        BY <1>1, <3>2 DEF StateMap
      <4>2. acc.state[k] \in 1..n
        BY <1>1, <1>2, <2>1, <4>1 DEF Follows
      <4>3. QED
        BY <1>1, <1>4, <2>1, <4>1, <4>2 DEF Follows
    <3>3. QED
      BY <3>1, <3>2
  <2>2. QED
    BY <2>1 DEF Follows
<1>8. QED
  BY <1>6, <1>7 DEF Stepping

(* A state that is there counts on. *)
LEMMA StateCounts ==
  ASSUME NEW all, NEW acc \in Stepping(all), NEW k \in DOMAIN acc.states,
         NEW r \in Accumulated, r.state = acc.state,
         DOMAIN r.states = DOMAIN acc.states,
         r.states[k] = [acc.states[k] EXCEPT !.step = Count(@)],
         \A j \in DOMAIN acc.states : j # k => r.states[j] = acc.states[j]
  PROVE  r \in Stepping(all)
<1>1. /\ acc.states \in Seq(StateRecord) /\ acc.state \in StateMap
      /\ Follows(acc.state, acc.states) /\ Lasts(all, acc.states)
  BY DEF Stepping, Accumulated
<1>2. acc.states[k] \in StateRecord
  BY <1>1, ElementOfSeq, LenProperties
<1>3. /\ r.states[k].of = acc.states[k].of
      /\ kind = "adam" => r.states[k].step > 0
  BY <1>2, CountIsNumber DEF StateRecord
<1>4. Lasts(acc.states, r.states)
  BY <1>3 DEF Lasts
<1>5. Lasts(all, r.states)
  BY <1>1, <1>4 DEF Lasts
<1>6. Follows(r.state, r.states)
  BY <1>1, <1>4, FollowsLater
<1>7. QED
  BY <1>5, <1>6 DEF Stepping

LEMMA StepOneKeeps ==
  ASSUME NEW o, NEW all, NEW acc \in Stepping(all), NEW g \in Groups
  PROVE  StepOne(o, acc, g) \in Stepping(all)
<1>1. /\ acc.states \in Seq(StateRecord) /\ acc.state \in StateMap /\ acc \in Accumulated
      /\ Follows(acc.state, acc.states)
  BY DEF Stepping, Accumulated
<1>2. CASE kind = "sgd" \/ ~grads[optimizer[o].move][g]
  BY <1>2 DEF StepOne
<1>3. CASE ~(kind = "sgd" \/ ~grads[optimizer[o].move][g]) /\ acc.state[g] = NoState
  <2>1. PICK r : r = [state |-> [acc.state EXCEPT ![g] = Len(acc.states) + 1],
                      states |-> Append(acc.states, [of |-> g, step |-> Count(0)])]
    OBVIOUS
  <2>2. StepOne(o, acc, g) = r
    BY <1>3, <2>1 DEF StepOne
  <2>3. r.state \in StateMap
    <3>1. Len(acc.states) + 1 \in Nat
      BY <1>1, LenProperties
    <3>2. QED
      BY <1>1, <2>1, <3>1 DEF StateMap
  <2>4. r.states \in Seq(StateRecord)
    <3>1. [of |-> g, step |-> Count(0)] \in StateRecord
      BY CountIsNumber DEF StateRecord
    <3>2. QED
      BY <1>1, <2>1, <3>1, AppendProperties
  <2>5. r \in Accumulated
    BY <2>1, <2>3, <2>4 DEF Accumulated
  <2>6. QED
    BY <2>1, <2>2, <2>5, StateIsMade
<1>4. CASE ~(kind = "sgd" \/ ~grads[optimizer[o].move][g]) /\ acc.state[g] # NoState
  <2>1. PICK k : k = acc.state[g] /\ k \in DOMAIN acc.states
    BY <1>1, <1>4 DEF Follows
  <2>2. acc.states[k] \in StateRecord
    BY <1>1, <2>1, ElementOfSeq, LenProperties
  <2>9. PICK n \in Nat : n = Count(acc.states[k].step)
    BY <2>2, CountIsNumber DEF StateRecord
  <2>10. PICK e \in StateRecord : e = [acc.states[k] EXCEPT !.step = n]
    BY <2>2 DEF StateRecord
  <2>11. PICK q : q = [acc.states EXCEPT ![k] = e]
    OBVIOUS
  <2>3. StepOne(o, acc, g) = [acc EXCEPT !.states = q]
    <3>1. StepOne(o, acc, g) = [acc EXCEPT !.states[acc.state[g]].step = Count(@)]
      BY <1>4, Zenon DEF StepOne
    <3>2. [acc EXCEPT !.states[acc.state[g]].step = Count(@)]
            = [acc EXCEPT !.states = [acc.states EXCEPT ![k] = e]]
      <4>1. [acc EXCEPT !.states[k].step = n] = [acc EXCEPT !.states = [acc.states EXCEPT ![k] = e]]
        BY <2>10
      <4>2. QED
        BY <2>1, <2>9, <4>1
    <3>3. QED
      BY <2>11, <3>1, <3>2
  <2>4. /\ q \in Seq(StateRecord) /\ DOMAIN q = DOMAIN acc.states
        /\ q[k] = [acc.states[k] EXCEPT !.step = Count(@)]
        /\ \A j \in DOMAIN acc.states : j # k => q[j] = acc.states[j]
    <3>1. k \in 1..Len(acc.states)
      BY <1>1, <2>1, LenProperties
    <3>2. q \in Seq(StateRecord)
      BY <1>1, <2>11, <3>1, ExceptSeq
    <3>3. DOMAIN q = DOMAIN acc.states /\ q[k] = e
          /\ \A j \in DOMAIN acc.states : j # k => q[j] = acc.states[j]
      BY <2>1, <2>11
    <3>4. QED
      BY <2>9, <2>10, <3>2, <3>3
  <2>5. PICK r : r = [acc EXCEPT !.states = q]
    OBVIOUS
  <2>6. r \in Accumulated /\ r.state = acc.state /\ r.states = q
    BY <1>1, <2>4, <2>5 DEF Accumulated
  <2>7. r \in Stepping(all)
    BY <2>1, <2>4, <2>6, StateCounts
  <2>8. QED
    BY <2>3, <2>5, <2>7
<1>5. QED
  BY <1>2, <1>3, <1>4

LEMMA StepKeeps ==
  ASSUME OptimizerInvariant, NEW o \in Optimizers, Step(o)
  PROVE  OptimizerInvariant'
<1> DEFINE basis == [state |-> optimizer[o].state, states |-> states]
<1>1. optimizer[o].state \in StateMap /\ states \in Seq(StateRecord)
  BY DEF OptimizerInvariant
<1>2. basis \in Stepping(states)
  <2>1. basis \in Accumulated /\ basis.state = optimizer[o].state /\ basis.states = states
    BY <1>1 DEF Accumulated
  <2>2. Follows(optimizer[o].state, states) /\ Lasts(states, states)
    BY DEF OptimizerInvariant, Lasts
  <2>3. QED
    BY <2>1, <2>2 DEF Stepping
<1>3. PICK end : end = Run(o, basis)
  OBVIOUS
<1>4. end \in Stepping(states)
  <2> HIDE DEF basis
  <2>1. \A k \in 1..GroupCount, acc \in Stepping(states) : StepOne(o, acc, k) \in Stepping(states)
    BY GroupsAreCounted, StepOneKeeps
  <2>2. QED
    BY <1>2, <1>3, <2>1, RunReaches
<1>5. /\ states' = end.states /\ optimizer' = [optimizer EXCEPT ![o].state = end.state]
      /\ UNCHANGED <<kind, moves, grads, dict, file>>
  BY <1>3 DEF Step, Run
<1>6. /\ end \in Accumulated /\ end.state \in StateMap /\ end.states \in Seq(StateRecord)
      /\ Follows(end.state, end.states) /\ Lasts(states, end.states)
  BY <1>4 DEF Stepping, Accumulated
<1>7. /\ optimizer' \in [Optimizers -> [move : Nat, state : StateMap]]
      /\ optimizer'[o].state = end.state
      /\ \A p \in Optimizers : p # o => optimizer'[p] = optimizer[p]
  BY <1>5, <1>6 DEF OptimizerInvariant
<1>9. ASSUME NEW p \in Optimizers PROVE Follows(optimizer[p].state, states)'
  <2>1. Follows(optimizer'[p].state, states')
    <3>1. CASE p = o
      BY <1>5, <1>6, <1>7, <3>1
    <3>2. CASE p # o
      <4>1. Follows(optimizer[p].state, states)
        BY DEF OptimizerInvariant
      <4>2. Follows(optimizer[p].state, end.states)
        BY <1>6, <4>1, FollowsLater
      <4>3. QED
        BY <1>5, <1>7, <3>2, <4>2
    <3>3. QED
      BY <3>1, <3>2
  <2>2. QED
    BY <1>5, <2>1 DEF Follows
<1>10. dict' # NoState => dict' \in StateMap /\ Follows(dict, states)'
  <2>1. dict # NoState => Follows(dict, end.states)
    BY <1>6, FollowsLater DEF OptimizerInvariant
  <2>2. QED
    BY <1>5, <2>1 DEF OptimizerInvariant, Follows
<1>11. moves' \in Nat /\ states' \in Seq(StateRecord)
  BY <1>5, <1>6 DEF OptimizerInvariant
<1>12. QED
  BY <1>7, <1>9, <1>10, <1>11 DEF OptimizerInvariant

LEMMA OptimizerStarts == OptimizerInit => OptimizerInvariant
<1> SUFFICES ASSUME OptimizerInit PROVE OptimizerInvariant
  OBVIOUS
<1>1. [g \in Groups |-> NoState] \in StateMap
  BY DEF StateMap
<1>2. optimizer \in [Optimizers -> [move : Nat, state : StateMap]]
  BY <1>1 DEF OptimizerInit
<1>3. \A o \in Optimizers : Follows(optimizer[o].state, states)
  BY DEF OptimizerInit, Follows
<1>4. states \in Seq(StateRecord)
  BY DEF OptimizerInit
<1>5. QED
  BY <1>2, <1>3, <1>4 DEF OptimizerInit, OptimizerInvariant

(* The optimizer o has other states, the list of them stays. *)
LEMMA StatesReplaced ==
  ASSUME OptimizerInvariant, NEW o \in Optimizers, NEW r \in [move : Nat, state : StateMap],
         optimizer' = [optimizer EXCEPT ![o] = r], Follows(r.state, states),
         kind' = kind, moves' = moves, states' = states, dict' = dict
  PROVE  OptimizerInvariant'
<1>1. /\ optimizer' \in [Optimizers -> [move : Nat, state : StateMap]]
      /\ optimizer'[o] = r /\ \A p \in Optimizers : p # o => optimizer'[p] = optimizer[p]
  BY DEF OptimizerInvariant
<1>2. \A p \in Optimizers : Follows(optimizer'[p].state, states)
  BY <1>1 DEF OptimizerInvariant
<1>3. \A p \in Optimizers : Follows(optimizer[p].state, states)'
  BY <1>2 DEF Follows
<1>4. dict' # NoState => dict' \in StateMap /\ Follows(dict, states)'
  BY DEF OptimizerInvariant, Follows
<1>5. QED
  BY <1>1, <1>3, <1>4 DEF OptimizerInvariant

(* Whatever else changes is not about states. *)
LEMMA StatesUntouched ==
  ASSUME OptimizerInvariant, UNCHANGED <<kind, states, optimizer, dict>>, moves' \in Nat
  PROVE  OptimizerInvariant'
  BY DEF OptimizerInvariant, Follows

LEMMA OptimizerStep == OptimizerInvariant /\ [OptimizerNext]_optimizerVars => OptimizerInvariant'
<1> SUFFICES ASSUME OptimizerInvariant, [OptimizerNext]_optimizerVars
             PROVE  OptimizerInvariant'
  OBVIOUS
<1>0. moves \in Nat
  BY DEF OptimizerInvariant
<1>1. CASE Apply
  BY <1>0, <1>1, StatesUntouched DEF Apply
<1>2. ASSUME NEW used \in SUBSET Groups, Backward(used) PROVE OptimizerInvariant'
  BY <1>0, <1>2, StatesUntouched DEF Backward
<1>3. ASSUME NEW rank \in {0, 1}, SaveCheckpoint(rank) PROVE OptimizerInvariant'
  BY <1>0, <1>3, StatesUntouched DEF SaveCheckpoint
<1>4. ASSUME NEW o \in Optimizers, MakeOptimizer(o) PROVE OptimizerInvariant'
  <2>1. PICK r \in [move : Nat, state : StateMap] :
          r = [move |-> moves, state |-> [g \in Groups |-> NoState]]
    BY <1>0 DEF StateMap
  <2>2. Follows(r.state, states)
    BY <2>1 DEF Follows
  <2>3. QED
    BY <1>4, <2>1, <2>2, StatesReplaced DEF MakeOptimizer
<1>5. ASSUME NEW o \in Optimizers, Step(o) PROVE OptimizerInvariant'
  BY <1>5, StepKeeps
<1>6. ASSUME NEW o \in Optimizers, OptimizerStateDict(o) PROVE OptimizerInvariant'
  <2>1. optimizer[o].state \in StateMap /\ Follows(optimizer[o].state, states)
    BY DEF OptimizerInvariant
  <2>2. QED
    BY <1>6, <2>1 DEF OptimizerStateDict, OptimizerInvariant, Follows
<1>7. ASSUME NEW o \in Optimizers, LoadOptimizerState(o) PROVE OptimizerInvariant'
  <2>1. /\ dict \in StateMap /\ Follows(dict, states)
        /\ optimizer[o] \in [move : Nat, state : StateMap]
        /\ Follows(optimizer[o].state, states)
    BY <1>7 DEF LoadOptimizerState, OptimizerInvariant
  <2>2. PICK st \in StateMap :
          st = [g \in Groups |-> IF dict[g] = NoState THEN optimizer[o].state[g] ELSE dict[g]]
    BY <2>1 DEF StateMap
  <2>3. Follows(st, states)
    BY <2>1, <2>2 DEF Follows
  <2>4. PICK r \in [move : Nat, state : StateMap] : r = [optimizer[o] EXCEPT !.state = st]
    BY <2>1
  <2>5. optimizer' = [optimizer EXCEPT ![o] = r] /\ r.state = st
    BY <1>7, <2>1, <2>2, <2>4 DEF LoadOptimizerState
  <2>6. QED
    BY <1>7, <2>3, <2>5, StatesReplaced DEF LoadOptimizerState
<1>8. ASSUME NEW o \in Optimizers, NEW to_none \in BOOLEAN, ZeroGrad(o, to_none)
      PROVE  OptimizerInvariant'
  BY <1>0, <1>8, StatesUntouched DEF ZeroGrad
<1>9. CASE UNCHANGED optimizerVars
  BY <1>0, <1>9, StatesUntouched DEF optimizerVars
<1>10. QED
  BY <1>1, <1>2, <1>3, <1>4, <1>5, <1>6, <1>7, <1>8, <1>9 DEF OptimizerNext

LEMMA StateFollows == OptimizerInvariant => StateFollowsParameter
  BY DEF OptimizerInvariant, StateFollowsParameter, Follows

(* For any parameters, and optimizers that step and load each other's states: the state an
   optimizer has for a parameter was made for it, and with Adam has taken a step. *)
THEOREM StatesFollowParameters == OptimizerSpec => []StateFollowsParameter
  BY OptimizerStarts, OptimizerStep, StateFollows, PTL DEF OptimizerSpec
-----------------------------------------------------------------------------
(* The stages of a pipeline. *)

Contents == Nat \cup {Blank}
StageState == [at : {"idle", "running", "failed", "returned"}, log : Seq(Nat),
               outputs : Seq(Contents)]

\* How much a stage has passed on.
PassedOn(s) == IF s = NumStages - 1 THEN pipe[s].outputs ELSE sent[s][s + 1]

PipelineInvariant ==
  /\ microbatches \in 1..MaxMicrobatches /\ pipe \in [Stages -> StageState]
  /\ sent \in [Stages -> [Stages -> Seq(Contents)]]
  /\ \A s \in Stages : LET p == pipe[s] IN
       /\ Len(p.log) <= microbatches /\ \A i \in DOMAIN p.log : p.log[i] = i
       /\ Len(PassedOn(s)) = Len(p.log)
       /\ p.at = "returned" => Len(p.log) = microbatches

LEMMA StagesAreCounted == NumStages \in Nat /\ Stages = 0..(NumStages - 1)
  BY PipelineAssumption DEF NumStages

LEMMA LesserOfTwo ==
  ASSUME NEW a \in Int, NEW b \in Int
  PROVE  Min({a, b}) = IF a <= b THEN a ELSE b
<1>1. PICK m \in {a, b} : \A y \in {a, b} : m <= y
  OBVIOUS
<1>2. Min({a, b}) \in {a, b} /\ \A y \in {a, b} : Min({a, b}) <= y
  BY <1>1 DEF Min
<1>3. QED
  BY <1>2

(* One forward pass before each backward one: still each micro-batch once and in order. *)
LEMMA OrderIsStraight ==
  ASSUME NEW s \in Stages, microbatches \in Nat
  PROVE  Order(s) = GPipe
<1>1. PICK w \in 0..microbatches : w = Warmup(s)
  <2>1. NumStages - s - 1 \in Nat
    BY StagesAreCounted
  <2>2. Min({NumStages - s - 1, microbatches}) =
          IF NumStages - s - 1 <= microbatches THEN NumStages - s - 1 ELSE microbatches
    BY <2>1, LesserOfTwo
  <2>3. QED
    BY <2>1, <2>2 DEF Warmup
<1>2. PICK a : a = [i \in 1..w |-> i]
  OBVIOUS
<1>3. PICK b : b = [i \in 1..(microbatches - w) |-> w + i]
  OBVIOUS
<1>4. OneForwardOneBackward(s) = a \o b
  BY <1>1, <1>2, <1>3 DEF OneForwardOneBackward
<1>5. a \in Seq(Nat) /\ Len(a) = w /\ b \in Seq(Nat) /\ Len(b) = microbatches - w
  BY <1>2, <1>3
<1>6. PICK c : c = a \o b /\ c \in Seq(Nat) /\ Len(c) = microbatches
               /\ \A i \in 1..microbatches : c[i] = IF i <= w THEN a[i] ELSE b[i - w]
  <2>1. Len(a) + Len(b) = microbatches
    BY <1>5
  <2>2. /\ a \o b \in Seq(Nat) /\ Len(a \o b) = Len(a) + Len(b)
        /\ \A i \in 1..(Len(a) + Len(b)) : (a \o b)[i] = IF i <= Len(a) THEN a[i] ELSE b[i - Len(a)]
    BY <1>5, ConcatProperties
  <2>3. QED
    BY <1>5, <2>1, <2>2
<1>7. \A i \in 1..microbatches : c[i] = i
  BY <1>1, <1>2, <1>3, <1>6
<1>8. c = [i \in 1..microbatches |-> i]
  <2>1. c \in [1..microbatches -> Nat]
    BY <1>6, LenProperties
  <2>2. QED
    BY <1>7, <2>1
<1>9. QED
  BY <1>4, <1>6, <1>8 DEF Order, GPipe

LEMMA PipelineStarts == PipelineInit => PipelineInvariant
<1> SUFFICES ASSUME PipelineInit PROVE PipelineInvariant
  OBVIOUS
<1>1. microbatches \in 1..MaxMicrobatches /\ microbatches \in Nat
  BY PipelineAssumption DEF PipelineInit
<1>2. [at |-> "idle", log |-> <<>>, outputs |-> <<>>] \in StageState
  BY DEF StageState
<1>3. pipe \in [Stages -> StageState] /\ sent \in [Stages -> [Stages -> Seq(Contents)]]
  BY <1>2 DEF PipelineInit
<1>4. ASSUME NEW s \in Stages
      PROVE  pipe[s].log = <<>> /\ pipe[s].at = "idle" /\ PassedOn(s) = <<>>
  <2>1. s # NumStages - 1 => s + 1 \in Stages
    BY StagesAreCounted
  <2>2. QED
    BY <2>1 DEF PipelineInit, PassedOn
<1>5. QED
  BY <1>1, <1>3, <1>4 DEF PipelineInvariant

(* A stage that only changes what it is doing. *)
LEMMA OnlyDoes ==
  ASSUME PipelineInvariant, NEW s \in Stages, NEW what \in {"running", "failed", "returned"},
         Does(s, what), what = "returned" => Len(pipe[s].log) = microbatches,
         sent' = sent, microbatches' = microbatches
  PROVE  PipelineInvariant'
<1>1. /\ pipe' \in [Stages -> StageState] /\ pipe'[s].at = what
      /\ \A t \in Stages : /\ pipe'[t].log = pipe[t].log /\ pipe'[t].outputs = pipe[t].outputs
                           /\ t # s => pipe'[t] = pipe[t]
  BY DEF Does, PipelineInvariant, StageState
<1>2. \A t \in Stages : PassedOn(t)' = PassedOn(t)
  BY <1>1 DEF PassedOn, NumStages
<1>4. ASSUME NEW t \in Stages
      PROVE  LET p == pipe'[t] IN
               /\ Len(p.log) <= microbatches' /\ \A i \in DOMAIN p.log : p.log[i] = i
               /\ Len(PassedOn(t)') = Len(p.log)
               /\ p.at = "returned" => Len(p.log) = microbatches'
  <2>1. pipe'[t].at = "returned" => Len(pipe[t].log) = microbatches
    BY <1>1 DEF PipelineInvariant
  <2>2. QED
    BY <1>1, <1>2, <2>1 DEF PipelineInvariant
<1>5. QED
  BY <1>1, <1>4 DEF PipelineInvariant

LEMMA ForwardKeeps ==
  ASSUME PipelineInvariant, NEW s \in Stages, StageForward(s)
  PROVE  PipelineInvariant'
<1>0. microbatches \in Nat /\ pipe[s] \in StageState
  BY PipelineAssumption DEF PipelineInvariant
<1>1. Order(s) = GPipe
  BY <1>0, OrderIsStraight
<1>2. PICK n \in Nat : n = Len(pipe[s].log) /\ DOMAIN pipe[s].log = 1..n
  BY <1>0, LenProperties DEF StageState
<1>3. n + 1 \in 1..microbatches /\ Order(s)[Round(s)] = n + 1
  <2>1. Round(s) = n + 1 /\ n + 1 <= Len(GPipe)
    BY <1>1, <1>2 DEF StageForward, Round
  <2>2. Len(GPipe) = microbatches
    BY <1>0 DEF GPipe
  <2>3. QED
    BY <1>0, <1>1, <2>1, <2>2 DEF GPipe
<1>4. PICK y \in Contents : y = IF s = 0 THEN n + 1 ELSE Blank
  <2>1. n + 1 \in Contents /\ Blank \in Contents
    BY DEF Contents
  <2>2. QED
    BY <2>1
<1>5. /\ pipe' = [pipe EXCEPT ![s].log = Append(@, n + 1),
                     ![s].outputs = IF s = NumStages - 1 THEN Append(@, y) ELSE @]
      /\ sent' = IF s = NumStages - 1 THEN sent ELSE [sent EXCEPT ![s][s + 1] = Append(@, y)]
      /\ microbatches' = microbatches
  BY <1>3, <1>4 DEF StageForward, Given
<1>6. PICK l \in Seq(Nat) : l = Append(pipe[s].log, n + 1) /\ Len(l) = n + 1
                            /\ DOMAIN l = 1..(n + 1) /\ l[n + 1] = n + 1
                            /\ \A i \in 1..n : l[i] = pipe[s].log[i]
  <2>1. pipe[s].log \in Seq(Nat) /\ n + 1 \in Nat
    BY <1>0 DEF StageState
  <2>2. PICK l : l = Append(pipe[s].log, n + 1)
    OBVIOUS
  <2>3. /\ l \in Seq(Nat) /\ Len(l) = n + 1 /\ l[n + 1] = n + 1
        /\ \A i \in 1..n : l[i] = pipe[s].log[i]
    BY <1>2, <2>1, <2>2, AppendProperties
  <2>4. DOMAIN l = 1..(n + 1)
    BY <2>3, LenProperties
  <2>5. QED
    BY <2>2, <2>3, <2>4
<1>7. PICK out \in Seq(Contents) :
        /\ out = IF s = NumStages - 1 THEN Append(pipe[s].outputs, y) ELSE pipe[s].outputs
        /\ s = NumStages - 1 => Len(out) = Len(pipe[s].outputs) + 1
  <2>1. pipe[s].outputs \in Seq(Contents)
    BY <1>0 DEF StageState
  <2>2. /\ Append(pipe[s].outputs, y) \in Seq(Contents)
        /\ Len(Append(pipe[s].outputs, y)) = Len(pipe[s].outputs) + 1
    BY <2>1, AppendProperties
  <2>3. QED
    BY <2>1, <2>2
<1>8. PICK r \in StageState : r = [pipe[s] EXCEPT !.log = l, !.outputs = out]
                              /\ r.log = l /\ r.outputs = out /\ r.at = pipe[s].at
  <2>1. PICK p : p = pipe[s]
    OBVIOUS
  <2>5. PICK a, b, c : p = [at |-> a, log |-> b, outputs |-> c] /\ a = pipe[s].at
    BY <1>0, <2>1 DEF StageState
  <2>2. [p EXCEPT !.log = l, !.outputs = out] = [at |-> a, log |-> l, outputs |-> out]
    <3>1. [p EXCEPT !.log = l] = [at |-> a, log |-> l, outputs |-> c]
      BY <2>5
    <3>2. PICK q : q = [at |-> a, log |-> l, outputs |-> c]
      OBVIOUS
    <3>3. [q EXCEPT !.outputs = out] = [at |-> a, log |-> l, outputs |-> out]
      BY <3>2
    <3>4. [p EXCEPT !.log = l, !.outputs = out] = [q EXCEPT !.outputs = out]
      BY <3>1, <3>2
    <3>5. QED
      BY <3>3, <3>4
  <2>3. [at |-> a, log |-> l, outputs |-> out] \in StageState
    BY <1>0, <2>5 DEF StageState
  <2>4. QED
    BY <2>1, <2>2, <2>3, <2>5
<1>9. /\ pipe' \in [Stages -> StageState] /\ pipe'[s] = r
      /\ \A t \in Stages : t # s => pipe'[t] = pipe[t]
  <2>1. pipe' = [pipe EXCEPT ![s] = r]
    BY <1>5, <1>6, <1>7, <1>8 DEF PipelineInvariant
  <2>2. QED
    BY <2>1 DEF PipelineInvariant
<1>10. /\ sent' \in [Stages -> [Stages -> Seq(Contents)]]
       /\ Len(PassedOn(s)') = n + 1
       /\ \A t \in Stages : t # s => PassedOn(t)' = PassedOn(t)
  <2>0. Len(PassedOn(s)) = n
    BY <1>2 DEF PipelineInvariant
  <2>1. CASE s = NumStages - 1
    <3>1. sent' = sent /\ PassedOn(s)' = out /\ Len(pipe[s].outputs) = n
      BY <1>5, <1>8, <1>9, <2>0, <2>1 DEF PassedOn, NumStages
    <3>2. QED
      BY <1>7, <1>9, <2>1, <3>1 DEF PassedOn, NumStages, PipelineInvariant
  <2>2. CASE s # NumStages - 1
    <3>0. s + 1 \in Stages
      BY <2>2, StagesAreCounted
    <3>1. s + 1 \in Stages /\ sent[s][s + 1] \in Seq(Contents) /\ Len(sent[s][s + 1]) = n
      BY <2>0, <2>2, <3>0 DEF PassedOn, PipelineInvariant
    <3>6. /\ Append(sent[s][s + 1], y) \in Seq(Contents)
          /\ Len(Append(sent[s][s + 1], y)) = n + 1
      BY <3>1, AppendProperties
    <3>2. PICK q \in Seq(Contents) : q = Append(sent[s][s + 1], y) /\ Len(q) = n + 1
      BY <3>6
    <3>3. /\ sent' \in [Stages -> [Stages -> Seq(Contents)]] /\ sent'[s][s + 1] = q
          /\ \A t \in Stages : t # s => sent'[t] = sent[t]
      BY <1>5, <2>2, <3>1, <3>2 DEF PipelineInvariant
    <3>4. PassedOn(s)' = q /\ \A t \in Stages : t # s => PassedOn(t)' = PassedOn(t)
      BY <1>9, <2>2, <3>3 DEF PassedOn, NumStages
    <3>5. QED
      BY <3>2, <3>3, <3>4
  <2>3. QED
    BY <2>1, <2>2
<1>11. \A i \in 1..(n + 1) : l[i] = i
  BY <1>2, <1>6 DEF PipelineInvariant
<1>12. r.at # "returned"
  BY <1>8 DEF StageForward
<1>13. ASSUME NEW t \in Stages
       PROVE  LET p == pipe'[t] IN
                /\ Len(p.log) <= microbatches' /\ \A i \in DOMAIN p.log : p.log[i] = i
                /\ Len(PassedOn(t)') = Len(p.log)
                /\ p.at = "returned" => Len(p.log) = microbatches'
  <2>1. CASE t = s
    BY <1>3, <1>5, <1>6, <1>8, <1>9, <1>10, <1>11, <1>12, <2>1
  <2>2. CASE t # s
    BY <1>5, <1>9, <1>10, <2>2 DEF PipelineInvariant
  <2>3. QED
    BY <2>1, <2>2
<1>14. QED
  BY <1>5, <1>9, <1>10, <1>13 DEF PipelineInvariant

LEMMA PipelineStep == PipelineInvariant /\ [PipelineNext]_pipelineVars => PipelineInvariant'
<1> SUFFICES ASSUME PipelineInvariant, [PipelineNext]_pipelineVars PROVE PipelineInvariant'
  OBVIOUS
<1>1. ASSUME UNCHANGED <<microbatches, sent, pipe>> PROVE PipelineInvariant'
  BY <1>1 DEF PipelineInvariant, PassedOn, NumStages
<1>2. ASSUME NEW s \in Stages,
             \/ InitializeGroup(s) \/ Destroy(s) \/ WaitForMessage(s)
             \/ \E alone \in BOOLEAN : WaitForCollective(s, alone)
      PROVE  PipelineInvariant'
  BY <1>1, <1>2 DEF InitializeGroup, Destroy, WaitForMessage, WaitForCollective, Given
<1>3. ASSUME NEW s \in Stages, Forward(s) PROVE PipelineInvariant'
  <2>1. \E what \in {"running", "failed"} : Does(s, what)
    BY <1>3 DEF Forward
  <2>2. QED
    BY <1>3, <2>1, OnlyDoes DEF Forward, Given
<1>4. ASSUME NEW s \in Stages, StageFails(s) PROVE PipelineInvariant'
  BY <1>4, OnlyDoes DEF StageFails, Given
<1>5. ASSUME NEW s \in Stages, StageForward(s) PROVE PipelineInvariant'
  BY <1>5, ForwardKeeps
<1>6. ASSUME NEW s \in Stages, ForwardReturns(s) PROVE PipelineInvariant'
  <2>1. microbatches \in Nat /\ Order(s) = GPipe
    BY PipelineAssumption, OrderIsStraight DEF PipelineInvariant
  <2>2. Len(GPipe) = microbatches
    BY <2>1 DEF GPipe
  <2>3. Len(pipe[s].log) \in Nat /\ Len(pipe[s].log) <= microbatches
    BY LenProperties DEF PipelineInvariant, StageState
  <2>4. Len(pipe[s].log) = microbatches
    BY <1>6, <2>1, <2>2, <2>3 DEF ForwardReturns, Round
  <2>5. QED
    BY <1>6, <2>4, OnlyDoes DEF ForwardReturns, Given
<1>7. CASE UNCHANGED pipelineVars
  BY <1>1, <1>7 DEF pipelineVars
<1>8. QED
  BY <1>2, <1>3, <1>4, <1>5, <1>6, <1>7 DEF PipelineNext

LEMMA StagesAreInOrder == PipelineInvariant => StagesInOrder
<1> SUFFICES ASSUME PipelineInvariant, NEW s \in Stages, pipe[s].at = "returned"
             PROVE  /\ pipe[s].log = GPipe
                    /\ Len(IF s = NumStages - 1 THEN pipe[s].outputs ELSE sent[s][s + 1])
                         = microbatches
  BY DEF StagesInOrder
<1>1. pipe[s].log \in Seq(Nat) /\ microbatches \in Nat /\ Len(pipe[s].log) = microbatches
  BY PipelineAssumption DEF PipelineInvariant, StageState
<1>2. pipe[s].log = [i \in 1..microbatches |-> pipe[s].log[i]]
  BY <1>1
<1>3. \A i \in 1..microbatches : pipe[s].log[i] = i
  BY <1>1, LenProperties DEF PipelineInvariant
<1>4. QED
  BY <1>1, <1>2, <1>3 DEF PipelineInvariant, PassedOn, GPipe

(* For any number of stages and micro-batches: a stage that returns has done each
   micro-batch once, in order, and passed on one result for each. *)
THEOREM StagesStayInOrder == PipelineSpec => []StagesInOrder
  BY PipelineStarts, PipelineStep, StagesAreInOrder, PTL DEF PipelineSpec
-----------------------------------------------------------------------------
(* The buckets and the partition. *)

\* Numel() of parameters, where the model has the sizes z.
NumelOf(z, listed) == FoldLeft(LAMBDA n, p : n + z[p], 0, listed)
NumelOfFolds(z, listed, c) ==
  c = [s \in SUBSET (DOMAIN listed) |->
         IF s = {} THEN 0 ELSE c[s \ {Max(s)}] + z[listed[Max(s)]]]

LEMMA NumelReachesUnfolds ==
  ASSUME NEW z, NEW listed
  PROVE  NumelOf(z, listed) = (CHOOSE c : NumelOfFolds(z, listed, c))[DOMAIN listed]
  BY DEF NumelOf, FoldLeft, MapThenFoldSet, NumelOfFolds

\* h counts the elements of the first parameters.
Counts(z, listed, n, h) == h[0] = 0 /\ \A k \in 1..n : h[k] = h[k - 1] + z[listed[k]]
Counted(z, listed, n) ==
  \E h \in [0..n -> Nat] : Counts(z, listed, n, h) /\ h[n] = NumelOf(z, listed)

(* The number of elements is summed up from the first parameter on. *)
LEMMA NumelIsCounted ==
  ASSUME NEW z, NEW listed, NEW n \in Nat, DOMAIN listed = 1..n,
         \A k \in 1..n : z[listed[k]] \in Nat
  PROVE  Counted(z, listed, n)
<1> DEFINE A == Nat
<1>0. \A k \in 1..n, a \in A : a + z[listed[k]] \in A
  OBVIOUS
<1>1. 0 \in A
  OBVIOUS
<1> HIDE DEF A
<1> DEFINE step == [p \in (1..n) \X A |-> p[2] + z[listed[p[1]]]]
           c == CHOOSE c : NumelOfFolds(z, listed, c)
           h == [k \in 0..n |-> c[1..k]]
<1>2. \A k \in 1..n, a \in A : step[<<k, a>>] = a + z[listed[k]]
  OBVIOUS
<1>3. PICK g \in [SUBSET (1..n) -> A] : Folds(0, step, n, g)
  <2>1. \A k \in 1..n, a \in A : step[<<k, a>>] \in A
    <3> HIDE DEF step
    <3>1. QED
      BY <1>0, <1>2
  <2> HIDE DEF step
  <2>2. QED
    BY <1>1, <2>1, FoldExists
<1>4. NumelOfFolds(z, listed, g)
  <2>1. ASSUME NEW s \in SUBSET (1..n), s # {}
        PROVE  step[<<Max(s), g[s \ {Max(s)}]>>] = g[s \ {Max(s)}] + z[listed[Max(s)]]
    <3>1. Max(s) \in 1..n
      BY <2>1, GreatestOf
    <3>2. s \ {Max(s)} \in SUBSET (1..n)
      OBVIOUS
    <3>3. g[s \ {Max(s)}] \in A
      BY <3>2
    <3> HIDE DEF step
    <3>4. QED
      BY <1>2, <3>1, <3>3
  <2> HIDE DEF step
  <2>2. QED
    BY <1>3, <2>1 DEF NumelOfFolds, Folds
<1>5. NumelOfFolds(z, listed, c)
  <2> HIDE DEF step
  <2>1. \E d : NumelOfFolds(z, listed, d)
    BY <1>4
  <2>2. QED
    BY <2>1
<1> HIDE DEF step, c
<1>6. c[{}] = 0 /\ \A k \in 1..n : c[1..k] = c[1..(k - 1)] + z[listed[k]]
  <2>1. c[{}] = 0
    BY <1>5 DEF NumelOfFolds
  <2>2. ASSUME NEW k \in 1..n PROVE c[1..k] = c[1..(k - 1)] + z[listed[k]]
    <3>1. /\ 1..k \in SUBSET (1..n) /\ 1..k # {}
          /\ Max(1..k) = k /\ (1..k) \ {k} = 1..(k - 1)
      BY PrefixEnds
    <3>2. QED
      BY <1>5, <3>1 DEF NumelOfFolds
  <2>3. QED
    BY <2>1, <2>2
<1>7. h[0] = 0 /\ \A k \in 1..n : h[k] = h[k - 1] + z[listed[k]]
  BY <1>6
<1>8. h \in [0..n -> A]
  <2>1. h = [k \in 0..n |-> h[k]]
    OBVIOUS
  <2> HIDE DEF h
  <2>2. \A k \in 1..n : h[k - 1] \in A => h[k] \in A
    BY <1>0, <1>7
  <2>3. \A k \in 0..n : h[k] \in A
    BY <1>1, <1>7, <2>2, FoldStays
  <2>4. QED
    BY <2>1, <2>3
<1>9. NumelOf(z, listed) = h[n]
  BY NumelReachesUnfolds DEF c
<1>10. Counts(z, listed, n, h)
  BY <1>7 DEF Counts
<1>11. QED
  BY <1>8, <1>9, <1>10 DEF A, Counted

LEMMA NumelCounted ==
  ASSUME NEW S, NEW z \in [S -> Nat], NEW listed \in Seq(S), NEW n \in Nat, Len(listed) = n
  PROVE  \E h \in [0..n -> Nat] : Counts(z, listed, n, h) /\ h[n] = NumelOf(z, listed)
<1>1. DOMAIN listed = 1..n /\ \A k \in 1..n : listed[k] \in S
  BY LenProperties, ElementOfSeq
<1>2. \A k \in 1..n : z[listed[k]] \in Nat
  BY <1>1
<1>3. Counted(z, listed, n)
  BY <1>1, <1>2, NumelIsCounted
<1>4. QED
  BY <1>3 DEF Counted

Alike(listed, other, n) == \A k \in 1..n : listed[k] = other[k]
CountAlike(g, h, n) == g[n] = h[n]

LEMMA CountsAgree ==
  ASSUME NEW z, NEW listed, NEW other, NEW n \in Nat, NEW g, NEW h,
         Counts(z, listed, n, g), Counts(z, other, n, h),
         Alike(listed, other, n)
  PROVE  CountAlike(g, h, n)
<1> DEFINE P == {k \in 0..n : g[k] = h[k]}
<1>1. 0 \in P
  BY DEF Counts
<1>2. ASSUME NEW k \in 1..n, k - 1 \in P PROVE k \in P
  BY <1>2 DEF Counts, Alike
<1> HIDE DEF P
<1>3. n \in P
  <2>1. n \in 0..n
    OBVIOUS
  <2>2. QED
    BY <1>1, <1>2, <2>1, NaturalInduction
<1>4. QED
  BY <1>3 DEF P, CountAlike

LEMMA NumelOfNone == ASSUME NEW z PROVE NumelOf(z, <<>>) = 0
<1>1. PICK e : e = <<>> /\ DOMAIN e = 1..0
  OBVIOUS
<1>2. 0 \in Nat /\ \A k \in 1..0 : z[e[k]] \in Nat
  OBVIOUS
<1>3. Counted(z, e, 0)
  BY <1>1, <1>2, NumelIsCounted
<1>4. QED
  BY <1>1, <1>3 DEF Counted, Counts

AddsSize(z, listed, p) ==
  /\ NumelOf(z, listed) \in Nat
  /\ NumelOf(z, Append(listed, p)) = NumelOf(z, listed) + z[p]

(* One more parameter adds its size. *)
LEMMA NumelOfMore ==
  ASSUME NEW S, NEW z \in [S -> Nat], NEW listed \in Seq(S), NEW p \in S
  PROVE  AddsSize(z, listed, p)
<1>1. PICK n \in Nat : n = Len(listed)
  BY LenProperties
<1>2. PICK more \in Seq(S) : /\ more = Append(listed, p) /\ Len(more) = n + 1
                             /\ more[n + 1] = p /\ \A k \in 1..n : more[k] = listed[k]
  <2>1. /\ Append(listed, p) \in Seq(S) /\ Len(Append(listed, p)) = n + 1
        /\ Append(listed, p)[n + 1] = p
        /\ \A k \in 1..n : Append(listed, p)[k] = listed[k]
    BY <1>1, AppendProperties
  <2>2. QED
    BY <2>1
<1>3. PICK g \in [0..n -> Nat] : Counts(z, listed, n, g) /\ g[n] = NumelOf(z, listed)
  BY <1>1, NumelCounted
<1>4. PICK m \in Nat : m = n + 1
  OBVIOUS
<1>5. PICK h \in [0..m -> Nat] : Counts(z, more, m, h) /\ h[m] = NumelOf(z, more)
  BY <1>2, <1>4, NumelCounted
<1>6. Counts(z, more, n, h)
  <2>1. \A k \in 1..n : k \in 1..m
    BY <1>4
  <2>2. h[0] = 0 /\ \A k \in 1..m : h[k] = h[k - 1] + z[more[k]]
    BY <1>5 DEF Counts
  <2>3. QED
    BY <2>1, <2>2 DEF Counts
<1>7. g[n] = h[n]
  <2>1. Alike(listed, more, n)
    BY <1>2 DEF Alike
  <2>2. n \in Nat /\ Counts(z, listed, n, g) /\ Counts(z, more, n, h)
    BY <1>1, <1>3, <1>6
  <2>3. CountAlike(g, h, n)
    BY <2>1, <2>2, CountsAgree
  <2>4. QED
    BY <2>3 DEF CountAlike
<1>8. h[m] = h[n] + z[p]
  BY <1>2, <1>4, <1>5 DEF Counts
<1>9. QED
  BY <1>2, <1>3, <1>5, <1>7, <1>8 DEF AddsSize

-----------------------------------------------------------------------------
\* The first k of n parameters, the last one first.
Reversed(n, k, s) == s \in Seq(1..n) /\ Len(s) = k /\ \A i \in 1..k : s[i] = n + 1 - i

\* bs has the first k of them in buckets, each of them within the limit.
Bucketed(z, n, k, bs) ==
  /\ bs \in Seq(Seq(1..n)) /\ bs # <<>> /\ Reversed(n, k, FlattenSeq(bs))
  /\ \A b \in DOMAIN bs : NumelOf(z, bs[b]) <= BucketCap \/ Len(bs[b]) = 1

LEMMA ReversedOn ==
  ASSUME NEW n \in Nat, NEW k \in 1..n, NEW s, Reversed(n, k - 1, s),
         NEW p, p = n + 1 - k
  PROVE  Reversed(n, k, Append(s, p))
<1>1. p \in 1..n /\ s \in Seq(1..n) /\ Len(s) = k - 1
  BY DEF Reversed
<1>2. PICK t \in Seq(1..n) : /\ t = Append(s, p) /\ Len(t) = k
                             /\ t[k] = p /\ \A i \in 1..(k - 1) : t[i] = s[i]
  <2>1. PICK m \in Nat : m = Len(s)
    BY <1>1
  <2>2. /\ Append(s, p) \in Seq(1..n) /\ Len(Append(s, p)) = m + 1
        /\ Append(s, p)[m + 1] = p /\ \A i \in 1..m : Append(s, p)[i] = s[i]
    BY <1>1, <2>1, AppendProperties
  <2>3. m + 1 = k /\ m = k - 1
    BY <1>1, <2>1
  <2>4. QED
    BY <2>2, <2>3
<1>3. \A i \in 1..k : t[i] = n + 1 - i
  <2>1. ASSUME NEW i \in 1..k PROVE t[i] = n + 1 - i
    <3>1. CASE i = k
      BY <1>2, <3>1
    <3>2. CASE i # k
      <4>1. i \in 1..(k - 1)
        BY <3>2
      <4>2. QED
        BY <1>2, <4>1 DEF Reversed
    <3>3. QED
      BY <3>1, <3>2
  <2>2. QED
    BY <2>1
<1>4. QED
  BY <1>2, <1>3 DEF Reversed

(* A new bucket takes the parameter. *)
LEMMA NewBucket ==
  ASSUME NEW n \in Nat, NEW k \in 1..n, NEW z \in [1..n -> Nat], NEW bs,
         Bucketed(z, n, k - 1, bs), NEW p, p = n + 1 - k
  PROVE  Bucketed(z, n, k, Append(bs, <<p>>))
<1>1. p \in 1..n /\ bs \in Seq(Seq(1..n)) /\ bs # <<>>
  BY DEF Bucketed
<1>2. PICK s \in Seq(1..n) : s = <<p>> /\ Len(s) = 1
  <2>1. <<p>> \in Seq(1..n)
    BY <1>1
  <2>2. Len(<<p>>) = 1
    OBVIOUS
  <2>3. QED
    BY <2>1, <2>2
<1>3. PICK t \in Seq(Seq(1..n)) : /\ t = Append(bs, s) /\ Len(t) = Len(bs) + 1
                   /\ t[Len(bs) + 1] = s /\ \A i \in 1..Len(bs) : t[i] = bs[i]
  <2>1. /\ Append(bs, s) \in Seq(Seq(1..n)) /\ Len(Append(bs, s)) = Len(bs) + 1
        /\ Append(bs, s)[Len(bs) + 1] = s
        /\ \A i \in 1..Len(bs) : Append(bs, s)[i] = bs[i]
    BY <1>1, AppendProperties
  <2>2. QED
    BY <2>1
<1>4. FlattenSeq(t) = Append(FlattenSeq(bs), p)
  <2>1. FlattenSeq(bs) \in Seq(1..n) /\ FlattenSeq(t) = FlattenSeq(bs) \o s
    BY <1>1, <1>3, FlattenOfMore
  <2>2. PICK f \in Seq(1..n) : f = FlattenSeq(bs)
    BY <2>1
  <2>3. Append(f, p) = f \o <<p>>
    BY <1>1, AppendIsConcat
  <2>4. QED
    BY <1>2, <2>1, <2>2, <2>3
<1>5. Reversed(n, k, FlattenSeq(t))
  BY <1>4, ReversedOn DEF Bucketed
<1>6. \A b \in DOMAIN t : NumelOf(z, t[b]) <= BucketCap \/ Len(t[b]) = 1
  <2>1. ASSUME NEW b \in DOMAIN t PROVE NumelOf(z, t[b]) <= BucketCap \/ Len(t[b]) = 1
    <3>1. PICK m \in Nat : m = Len(bs) /\ DOMAIN bs = 1..m /\ DOMAIN t = 1..(m + 1)
      BY <1>1, <1>3, LenProperties
    <3>2. CASE b = m + 1
      BY <1>2, <1>3, <3>1, <3>2
    <3>3. CASE b # m + 1
      <4>1. b \in 1..m
        <5>1. b \in 1..(m + 1)
          BY <3>1
        <5>2. QED
          BY <3>3, <5>1
      <4>2. QED
        BY <1>3, <3>1, <4>1 DEF Bucketed
    <3>4. QED
      BY <3>2, <3>3
  <2>2. QED
    BY <2>1
<1>7. t # <<>>
  <2>1. Len(bs) \in Nat
    BY <1>1, LenProperties
  <2>2. Len(t) # 0
    BY <1>3, <2>1
  <2>3. QED
    BY <2>2, EmptySeq
<1>8. QED
  BY <1>2, <1>3, <1>5, <1>6, <1>7 DEF Bucketed

LEMMA LastLonger ==
  ASSUME NEW S, NEW seqs \in Seq(Seq(S)), seqs # <<>>, NEW e \in S
  PROVE  /\ Append(Front(seqs), Append(Last(seqs), e)) \in Seq(Seq(S))
         /\ Lengthens(seqs, Append(Front(seqs), Append(Last(seqs), e)), Len(seqs), e)
<1>1. PICK n \in Nat \ {0} : n = Len(seqs) /\ DOMAIN seqs = 1..n
  BY EmptySeq, LenProperties
<1>2. \A i \in 1..n : seqs[i] \in Seq(S)
  BY <1>1, ElementOfSeq
<1>3. n - 1 \in Nat /\ n - 1 \in Int /\ 1 \in Int
  OBVIOUS
<1>4. PICK f \in Seq(Seq(S)) : /\ f = Front(seqs) /\ Len(f) = n - 1
                               /\ \A i \in 1..(n - 1) : f[i] = seqs[i]
  <2>1. \A i \in 1..(n - 1) : seqs[i] \in Seq(S)
    BY <1>2
  <2>2. /\ SubSeq(seqs, 1, n - 1) \in Seq(Seq(S))
        /\ Len(SubSeq(seqs, 1, n - 1)) = IF 1 <= n - 1 THEN (n - 1) - 1 + 1 ELSE 0
        /\ \A i \in 1..((n - 1) - 1 + 1) : SubSeq(seqs, 1, n - 1)[i] = seqs[1 + i - 1]
    BY <1>3, <2>1, SubSeqProperties
  <2>3. Len(SubSeq(seqs, 1, n - 1)) = n - 1
    BY <2>2
  <2>4. \A i \in 1..(n - 1) : i \in 1..((n - 1) - 1 + 1) /\ 1 + i - 1 = i
    OBVIOUS
  <2>5. \A i \in 1..(n - 1) : SubSeq(seqs, 1, n - 1)[i] = seqs[i]
    BY <2>2, <2>4
  <2>6. Front(seqs) = SubSeq(seqs, 1, n - 1)
    BY <1>1 DEF Front
  <2>7. QED
    BY <2>2, <2>3, <2>5, <2>6
<1>5. PICK last \in Seq(S) : last = Append(Last(seqs), e) /\ last = Append(seqs[n], e)
  <2>1. Last(seqs) = seqs[n]
    BY <1>1 DEF Last
  <2>2. Append(seqs[n], e) \in Seq(S)
    BY <1>2
  <2>3. QED
    BY <2>1, <2>2
<1>6. PICK t \in Seq(Seq(S)) : /\ t = Append(f, last) /\ Len(t) = n /\ t[n] = last
                               /\ \A i \in 1..(n - 1) : t[i] = f[i]
  <2>1. PICK m \in Nat : m = Len(f)
    BY LenProperties
  <2>2. /\ Append(f, last) \in Seq(Seq(S)) /\ Len(Append(f, last)) = m + 1
        /\ Append(f, last)[m + 1] = last /\ \A i \in 1..m : Append(f, last)[i] = f[i]
    BY <2>1, AppendProperties
  <2>3. m + 1 = n /\ m = n - 1
    BY <1>4, <2>1
  <2>4. QED
    BY <2>2, <2>3
<1>7. Lengthens(seqs, t, n, e)
  <2>1. \A j \in 1..n : j # n => j \in 1..(n - 1)
    OBVIOUS
  <2>2. QED
    BY <1>1, <1>4, <1>5, <1>6, <2>1 DEF Lengthens
<1>8. QED
  BY <1>1, <1>4, <1>5, <1>6, <1>7

(* A bucket takes the parameter when it has the room, and an empty one always. *)
LEMMA SameBucket ==
  ASSUME NEW n \in Nat, NEW k \in 1..n, NEW z \in [1..n -> Nat], NEW bs,
         Bucketed(z, n, k - 1, bs), NEW p, p = n + 1 - k,
         NumelOf(z, Last(bs)) + z[p] <= BucketCap \/ Last(bs) = <<>>
  PROVE  Bucketed(z, n, k, Append(Front(bs), Append(Last(bs), p)))
<1>1. p \in 1..n /\ bs \in Seq(Seq(1..n)) /\ bs # <<>>
  BY DEF Bucketed
<1>2. PICK m \in Nat \ {0} : m = Len(bs) /\ DOMAIN bs = 1..m
  BY <1>1, EmptySeq, LenProperties
<1>3. PICK t \in Seq(Seq(1..n)) : /\ t = Append(Front(bs), Append(Last(bs), p))
                                  /\ Lengthens(bs, t, m, p)
  <2>1. /\ Append(Front(bs), Append(Last(bs), p)) \in Seq(Seq(1..n))
        /\ Lengthens(bs, Append(Front(bs), Append(Last(bs), p)), Len(bs), p)
    BY <1>1, LastLonger
  <2>2. QED
    BY <1>2, <2>1
<1>4. Len(t) = m /\ t[m] = Append(bs[m], p) /\ \A j \in 1..m : j # m => t[j] = bs[j]
  BY <1>2, <1>3 DEF Lengthens
<1>5. bs[m] \in Seq(1..n) /\ Last(bs) = bs[m] /\ DOMAIN t = 1..m
  <2>1. m \in 1..m
    OBVIOUS
  <2>2. QED
    BY <1>1, <1>2, <1>4, <2>1, ElementOfSeq, LenProperties DEF Last
<1>6. FlattenSeq(t) = Append(FlattenSeq(bs), p)
  <2>1. m \in DOMAIN bs /\ OnlyNothingAfter(bs, m)
    BY <1>2 DEF OnlyNothingAfter
  <2>2. FlattenLonger(1..n, bs, t, p)
    BY <1>1, <1>3, <2>1, FlattenOfLonger
  <2>3. QED
    BY <2>2 DEF FlattenLonger
<1>7. Reversed(n, k, FlattenSeq(t))
  BY <1>6, ReversedOn DEF Bucketed
<1>8. NumelOf(z, t[m]) <= BucketCap \/ Len(t[m]) = 1
  <2>1. CASE bs[m] = <<>>
    <3>1. t[m] = <<p>>
      BY <1>4, <2>1
    <3>2. QED
      BY <3>1
  <2>2. CASE bs[m] # <<>>
    <3>1. AddsSize(z, bs[m], p)
      BY <1>1, <1>5, NumelOfMore
    <3>2. QED
      BY <1>4, <1>5, <2>2, <3>1 DEF AddsSize
  <2>3. QED
    BY <2>1, <2>2
<1>9. \A b \in DOMAIN t : NumelOf(z, t[b]) <= BucketCap \/ Len(t[b]) = 1
  BY <1>2, <1>4, <1>5, <1>8 DEF Bucketed
<1>10. t # <<>>
  BY <1>4, EmptySeq
<1>11. QED
  BY <1>3, <1>7, <1>9, <1>10 DEF Bucketed

-----------------------------------------------------------------------------
\* The buckets that parameters are put in.
BucketsOf(listed) == FoldLeft(AddParam, << <<>> >>, listed)

BucketsOfFolds(listed, c) ==
  c = [s \in SUBSET (DOMAIN listed) |->
         IF s = {} THEN << <<>> >> ELSE AddParam(c[s \ {Max(s)}], listed[Max(s)])]

\* The steps of the fold stay in A, and the values it goes through are in it.
BucketsOfStays(listed, n, A) == \A k \in 1..n, a \in A : AddParam(a, listed[k]) \in A
BucketsOfPasses(listed, n, A) ==
  \E h \in [0..n -> A] : /\ h[0] = << <<>> >> /\ h[n] = BucketsOf(listed)
                         /\ \A k \in 1..n : h[k] = AddParam(h[k - 1], listed[k])

LEMMA BucketsReachUnfolds ==
  ASSUME NEW listed
  PROVE  BucketsOf(listed) = (CHOOSE c : BucketsOfFolds(listed, c))[DOMAIN listed]
  BY DEF BucketsOf, FoldLeft, MapThenFoldSet, BucketsOfFolds

(* The buckets are what the parameters make of them one by one. *)
LEMMA BucketsReach ==
  ASSUME NEW listed, NEW n \in Nat, DOMAIN listed = 1..n,
         NEW A, << <<>> >> \in A,
         BucketsOfStays(listed, n, A)
  PROVE  BucketsOfPasses(listed, n, A)
<1> DEFINE step == [p \in (1..n) \X A |-> AddParam(p[2], listed[p[1]])]
           c == CHOOSE c : BucketsOfFolds(listed, c)
           h == [k \in 0..n |-> c[1..k]]
<1>2. \A k \in 1..n, a \in A : step[<<k, a>>] = AddParam(a, listed[k])
  OBVIOUS
<1>3. PICK g \in [SUBSET (1..n) -> A] : Folds(<< <<>> >>, step, n, g)
  <2>1. \A k \in 1..n, a \in A : step[<<k, a>>] \in A
    <3> HIDE DEF step
    <3>1. QED
      BY <1>2 DEF BucketsOfStays
  <2> HIDE DEF step
  <2>2. QED
    BY <2>1, FoldExists
<1>4. BucketsOfFolds(listed, g)
  <2>1. ASSUME NEW s \in SUBSET (1..n), s # {}
        PROVE  step[<<Max(s), g[s \ {Max(s)}]>>] = AddParam(g[s \ {Max(s)}], listed[Max(s)])
    <3>1. Max(s) \in 1..n
      BY <2>1, GreatestOf
    <3>2. s \ {Max(s)} \in SUBSET (1..n)
      OBVIOUS
    <3>3. g[s \ {Max(s)}] \in A
      BY <3>2
    <3> HIDE DEF step
    <3>4. QED
      BY <1>2, <3>1, <3>3
  <2> HIDE DEF step
  <2>2. QED
    BY <1>3, <2>1 DEF BucketsOfFolds, Folds
<1>5. BucketsOfFolds(listed, c)
  <2> HIDE DEF step
  <2>1. \E d : BucketsOfFolds(listed, d)
    BY <1>4
  <2>2. QED
    BY <2>1
<1> HIDE DEF step, c
<1>6. c[{}] = << <<>> >> /\ \A k \in 1..n : c[1..k] = AddParam(c[1..(k - 1)], listed[k])
  <2>1. c[{}] = << <<>> >>
    BY <1>5 DEF BucketsOfFolds
  <2>2. ASSUME NEW k \in 1..n PROVE c[1..k] = AddParam(c[1..(k - 1)], listed[k])
    <3>1. /\ 1..k \in SUBSET (1..n) /\ 1..k # {}
          /\ Max(1..k) = k /\ (1..k) \ {k} = 1..(k - 1)
      BY PrefixEnds
    <3>2. QED
      BY <1>5, <3>1 DEF BucketsOfFolds
  <2>3. QED
    BY <2>1, <2>2
<1>7. h[0] = << <<>> >> /\ \A k \in 1..n : h[k] = AddParam(h[k - 1], listed[k])
  BY <1>6
<1>8. h \in [0..n -> A]
  <2>1. h = [k \in 0..n |-> h[k]]
    OBVIOUS
  <2> HIDE DEF h
  <2>2. \A k \in 1..n : h[k - 1] \in A => h[k] \in A
    BY <1>7 DEF BucketsOfStays
  <2>3. \A k \in 0..n : h[k] \in A
    BY <1>7, <2>2, FoldStays
  <2>4. QED
    BY <2>1, <2>3
<1>9. BucketsOf(listed) = h[n]
  BY BucketsReachUnfolds DEF c
<1>10. QED
  BY <1>7, <1>8, <1>9 DEF BucketsOfPasses

\* Some buckets of the parameters 1..n.
SomeBuckets(n) == {bs \in Seq(Seq(1..n)) : bs # <<>>}

LEMMA NumelIs == ASSUME NEW listed PROVE Numel(listed) = NumelOf(sizes, listed)
  BY DEF Numel, NumelOf

LEMMA AddParamAdds ==
  ASSUME NEW n \in Nat, NEW bs \in SomeBuckets(n), NEW p \in 1..n
  PROVE  AddParam(bs, p) \in SomeBuckets(n)
<1>1. bs \in Seq(Seq(1..n)) /\ bs # <<>>
  BY DEF SomeBuckets
<1>2. PICK m \in Nat \ {0} : m = Len(bs)
  BY <1>1, EmptySeq
<1>3. Append(bs, <<p>>) \in SomeBuckets(n)
  <2>1. PICK s \in Seq(1..n) : s = <<p>>
    <3>1. <<p>> \in Seq(1..n)
      OBVIOUS
    <3>2. QED
      BY <3>1
  <2>2. Append(bs, s) \in Seq(Seq(1..n)) /\ Len(Append(bs, s)) = m + 1
    BY <1>1, <1>2, AppendProperties
  <2>3. m + 1 # 0
    OBVIOUS
  <2>4. Append(bs, s) # <<>>
    BY <2>2, <2>3, EmptySeq
  <2>5. QED
    BY <2>1, <2>2, <2>4 DEF SomeBuckets
<1>4. Append(Front(bs), Append(Last(bs), p)) \in SomeBuckets(n)
  <2>1. PICK t \in Seq(Seq(1..n)) : /\ t = Append(Front(bs), Append(Last(bs), p))
                                    /\ Lengthens(bs, t, Len(bs), p)
    <3>1. /\ Append(Front(bs), Append(Last(bs), p)) \in Seq(Seq(1..n))
          /\ Lengthens(bs, Append(Front(bs), Append(Last(bs), p)), Len(bs), p)
      BY <1>1, LastLonger
    <3>2. QED
      BY <3>1
  <2>2. Len(t) = m
    BY <1>2, <2>1 DEF Lengthens
  <2>3. t # <<>>
    BY <1>2, <2>2, EmptySeq
  <2>4. QED
    BY <2>1, <2>3 DEF SomeBuckets
<1>5. QED
  BY <1>3, <1>4 DEF AddParam

LEMMA AddParamKeeps ==
  ASSUME NEW n \in Nat, sizes \in [1..n -> Nat], NEW k \in 1..n, NEW bs,
         Bucketed(sizes, n, k - 1, bs), NEW p, p = n + 1 - k
  PROVE  Bucketed(sizes, n, k, AddParam(bs, p))
<1>1. CASE Numel(Last(bs)) + sizes[p] > BucketCap /\ Last(bs) # <<>>
  <2>1. AddParam(bs, p) = Append(bs, <<p>>)
    BY <1>1 DEF AddParam
  <2>2. QED
    BY <2>1, NewBucket
<1>2. CASE ~(Numel(Last(bs)) + sizes[p] > BucketCap /\ Last(bs) # <<>>)
  <2>1. AddParam(bs, p) = Append(Front(bs), Append(Last(bs), p))
    BY <1>2 DEF AddParam
  <2>2. NumelOf(sizes, Last(bs)) + sizes[p] <= BucketCap \/ Last(bs) = <<>>
    <3>1. bs \in Seq(Seq(1..n)) /\ bs # <<>> /\ p \in 1..n
      BY DEF Bucketed
    <3>2. PICK m \in Nat \ {0} : m = Len(bs)
      BY <3>1, EmptySeq
    <3>3. m \in 1..Len(bs)
      BY <3>2
    <3>4. Last(bs) \in Seq(1..n)
      BY <3>1, <3>2, <3>3, ElementOfSeq DEF Last
    <3>5. AddsSize(sizes, Last(bs), p)
      BY <3>1, <3>4, NumelOfMore
    <3>6. NumelOf(sizes, Last(bs)) \in Nat /\ sizes[p] \in Nat /\ BucketCap \in Nat
      BY <3>1, <3>5, DataParallelAssumption DEF AddsSize
    <3>7. Numel(Last(bs)) = NumelOf(sizes, Last(bs))
      BY NumelIs
    <3>8. QED
      BY <1>2, <3>6, <3>7
  <2>3. QED
    BY <2>1, <2>2, SameBucket
<1>3. QED
  BY <1>1, <1>2

(* The buckets have the parameters from the last one to the first. *)
LEMMA BucketsAreInOrder ==
  ASSUME NEW n \in Nat, sizes \in [1..n -> Nat]
  PROVE  Bucketed(sizes, n, n, BuildBuckets)
<1> DEFINE r == Reverse(Params)
           A == SomeBuckets(n)
<1>1. DOMAIN Params = 1..n /\ Len(Params) = n /\ \A i \in 1..n : Params[i] = i
  <2>1. DOMAIN sizes = 1..n
    OBVIOUS
  <2>2. Params = [i \in 1..n |-> i]
    BY <2>1 DEF Params
  <2>3. QED
    BY <2>2
<1>2. DOMAIN r = 1..n /\ \A k \in 1..n : r[k] = n + 1 - k /\ r[k] \in 1..n
  <2>1. r = [i \in 1..n |-> Params[(n - i) + 1]]
    BY <1>1 DEF Reverse
  <2> HIDE DEF r
  <2>2. ASSUME NEW k \in 1..n PROVE r[k] = n + 1 - k /\ r[k] \in 1..n
    <3>1. (n - k) + 1 \in 1..n /\ (n - k) + 1 = n + 1 - k
      OBVIOUS
    <3>2. QED
      BY <1>1, <2>1, <3>1
  <2>3. QED
    BY <2>1, <2>2
<1> HIDE DEF r
<1>3. << <<>> >> \in A
  <2>1. << <<>> >> \in Seq(Seq(1..n)) /\ << <<>> >> # <<>>
    OBVIOUS
  <2>2. QED
    BY <2>1 DEF SomeBuckets
<1>4. \A k \in 1..n, a \in A : AddParam(a, r[k]) \in A
  BY <1>2, AddParamAdds
<1>5. PICK h \in [0..n -> A] : /\ h[0] = << <<>> >> /\ h[n] = BucketsOf(r)
                               /\ \A k \in 1..n : h[k] = AddParam(h[k - 1], r[k])
  <2> HIDE DEF A
  <2>1. BucketsOfStays(r, n, A)
    BY <1>4 DEF BucketsOfStays
  <2>2. BucketsOfPasses(r, n, A)
    BY <1>2, <1>3, <2>1, BucketsReach
  <2>3. QED
    BY <2>2 DEF BucketsOfPasses
<1> DEFINE P == {k \in 0..n : Bucketed(sizes, n, k, h[k])}
<1>6. 0 \in P
  <2>1. PICK e : e = <<>> /\ e \in Seq(1..n) /\ Len(e) = 0
    OBVIOUS
  <2>2. FlattenSeq(<<e>>) = e
    BY <2>1, FlattenOfOne
  <2>3. Reversed(n, 0, e)
    BY <2>1 DEF Reversed
  <2>4. \A b \in DOMAIN <<e>> : NumelOf(sizes, <<e>>[b]) <= BucketCap
    <3>1. NumelOf(sizes, e) = 0 /\ BucketCap \in Nat
      BY <2>1, NumelOfNone, DataParallelAssumption
    <3>2. \A b \in DOMAIN <<e>> : <<e>>[b] = e
      OBVIOUS
    <3>3. QED
      BY <3>1, <3>2
  <2>5. <<e>> \in Seq(Seq(1..n)) /\ <<e>> # <<>>
    BY <2>1
  <2>6. Bucketed(sizes, n, 0, <<e>>)
    BY <2>2, <2>3, <2>4, <2>5 DEF Bucketed
  <2>7. h[0] = <<e>> /\ 0 \in 0..n
    BY <1>5, <2>1
  <2>8. QED
    BY <2>6, <2>7
<1>7. ASSUME NEW k \in 1..n, k - 1 \in P PROVE k \in P
  <2>1. Bucketed(sizes, n, k - 1, h[k - 1]) /\ r[k] = n + 1 - k
    BY <1>2, <1>7
  <2>2. Bucketed(sizes, n, k, AddParam(h[k - 1], r[k]))
    BY <2>1, AddParamKeeps
  <2>3. QED
    BY <1>5, <2>2
<1>8. n \in P
  <2> HIDE DEF P
  <2>1. n \in 0..n
    OBVIOUS
  <2>2. QED
    BY <1>6, <1>7, <2>1, NaturalInduction
<1>9. BuildBuckets = BucketsOf(r)
  BY DEF BuildBuckets, BucketsOf, r
<1>10. QED
  BY <1>5, <1>8, <1>9

-----------------------------------------------------------------------------
\* What a rank is to have of the parameters, when their sizes are z.
TotalOf(z) == NumelOf(z, [i \in DOMAIN z |-> i])
ShareOf(z) == (TotalOf(z) + WorldSize - 1) \div WorldSize
FirstOnes(k) == [i \in 1..k |-> i]
PartsOf(n) == [Workers -> Seq(1..n)]
Assigned(n) == [rank : Workers, numel : Nat, parts : PartsOf(n)]
ByRank(parts) == [k \in 1..WorldSize |-> parts[k - 1]]

LEMMA WorkersAreCounted == WorldSize \in Nat \ {0} /\ Workers = 0..(WorldSize - 1)
  BY DataParallelAssumption DEF WorldSize

\* As many of w shares of s as are needed for all that there is.
SharesSuffice(t, w, s) == s \in Nat /\ t <= w * s /\ (t > 0 => s > 0)

LEMMA ShareSuffices ==
  ASSUME NEW t \in Nat, NEW w \in Nat \ {0}
  PROVE  SharesSuffice(t, w, (t + w - 1) \div w)
<1>1. PICK d \in Int : d = (t + w - 1) \div w /\ w * d <= t + w - 1 /\ t + w - 1 < w * d + w
  OBVIOUS
<1>2. t <= w * d
  BY <1>1
<1>3. d >= 0
  <2>1. ASSUME d <= -1 PROVE FALSE
    <3>1. w * d <= w * (-1)
      BY <2>1
    <3>2. QED
      BY <1>2, <3>1
  <2>2. QED
    BY <2>1
<1>4. t > 0 => d > 0
  <2>1. d = 0 => w * d = 0
    OBVIOUS
  <2>2. QED
    BY <1>2, <1>3, <2>1
<1>5. QED
  BY <1>1, <1>2, <1>3, <1>4 DEF SharesSuffice

LEMMA FrontOfMore ==
  ASSUME NEW S, NEW s \in Seq(S), NEW e \in S
  PROVE  Front(Append(s, e)) = s /\ Append(s, e) # <<>>
<1>1. PICK n \in Nat : n = Len(s)
  BY LenProperties
<1>2. PICK t \in Seq(S) : /\ t = Append(s, e) /\ Len(t) = n + 1
                          /\ \A i \in 1..n : t[i] = s[i]
  <2>1. /\ Append(s, e) \in Seq(S) /\ Len(Append(s, e)) = n + 1
        /\ \A i \in 1..n : Append(s, e)[i] = s[i]
    BY <1>1, AppendProperties
  <2>2. QED
    BY <2>1
<1>3. 1 \in Int /\ n \in Int /\ \A i \in 1..n : t[i] \in S
  BY <1>1, <1>2, ElementOfSeq
<1>4. PICK f \in Seq(S) : /\ f = Front(t) /\ Len(f) = n /\ \A i \in 1..n : f[i] = t[i]
  <2>1. /\ SubSeq(t, 1, n) \in Seq(S)
        /\ Len(SubSeq(t, 1, n)) = IF 1 <= n THEN n - 1 + 1 ELSE 0
        /\ \A i \in 1..(n - 1 + 1) : SubSeq(t, 1, n)[i] = t[1 + i - 1]
    BY <1>3, SubSeqProperties
  <2>2. Len(SubSeq(t, 1, n)) = n
    BY <2>1
  <2>3. \A i \in 1..n : i \in 1..(n - 1 + 1) /\ 1 + i - 1 = i
    OBVIOUS
  <2>4. \A i \in 1..n : SubSeq(t, 1, n)[i] = t[i]
    BY <2>1, <2>3
  <2>5. (n + 1) - 1 = n
    OBVIOUS
  <2>6. Front(t) = SubSeq(t, 1, n)
    BY <1>2, <2>5 DEF Front
  <2>7. QED
    BY <2>1, <2>2, <2>4, <2>6
<1>5. f = s
  BY <1>1, <1>2, <1>4, SeqEqual
<1>6. t # <<>>
  BY <1>2, EmptySeq
<1>7. QED
  BY <1>2, <1>4, <1>5, <1>6

LEMMA FirstOnesOn ==
  ASSUME NEW n \in Nat, NEW k \in 1..n
  PROVE  /\ FirstOnes(k - 1) \in Seq(1..n)
         /\ Append(FirstOnes(k - 1), k) = FirstOnes(k)
<1>1. PICK m \in Nat : m = k - 1 /\ k = m + 1
  OBVIOUS
<1>2. PICK f : f = FirstOnes(m)
  OBVIOUS
<1>3. f \in Seq(1..n) /\ Len(f) = m /\ \A i \in 1..m : f[i] = i
  <2>1. f = [i \in 1..m |-> i] /\ \A i \in 1..m : i \in 1..n
    BY <1>1, <1>2 DEF FirstOnes
  <2>2. f \in [1..m -> 1..n]
    BY <2>1
  <2>3. QED
    BY <2>1, <2>2
<1>4. PICK g : g = FirstOnes(k)
  OBVIOUS
<1>5. g \in Seq(1..n) /\ Len(g) = k /\ \A i \in 1..k : g[i] = i
  <2>1. g = [i \in 1..k |-> i] /\ \A i \in 1..k : i \in 1..n
    BY <1>4 DEF FirstOnes
  <2>2. g \in [1..k -> 1..n]
    BY <2>1
  <2>3. QED
    BY <2>1, <2>2
<1>6. PICK t \in Seq(1..n) : /\ t = Append(f, k) /\ Len(t) = m + 1 /\ t[m + 1] = k
                             /\ \A i \in 1..m : t[i] = f[i]
  <2>1. /\ Append(f, k) \in Seq(1..n) /\ Len(Append(f, k)) = m + 1
        /\ Append(f, k)[m + 1] = k /\ \A i \in 1..m : Append(f, k)[i] = f[i]
    BY <1>3, AppendProperties
  <2>2. QED
    BY <2>1
<1>7. \A i \in 1..k : t[i] = g[i]
  <2>1. ASSUME NEW i \in 1..k PROVE t[i] = g[i]
    <3>1. CASE i = k
      BY <1>1, <1>5, <1>6, <3>1
    <3>2. CASE i # k
      <4>1. i \in 1..m
        BY <1>1, <3>2
      <4>2. QED
        BY <1>3, <1>5, <1>6, <4>1
    <3>3. QED
      BY <3>1, <3>2
  <2>2. QED
    BY <2>1
<1>8. t = g
  BY <1>1, <1>5, <1>6, <1>7, SeqEqual
<1>9. QED
  BY <1>1, <1>2, <1>3, <1>4, <1>6, <1>8

\* The first k of n parameters are given to the ranks, in order and each rank its share.
InShares(z, n, k, parts) ==
  /\ parts \in PartsOf(n) /\ FlattenSeq(ByRank(parts)) = FirstOnes(k)
  /\ \A w \in Workers : parts[w] # <<>> => NumelOf(z, Front(parts[w])) < ShareOf(z)

NoneAfter(parts, r) == \A w \in Workers : w > r => parts[w] = <<>>

\* ... and the rank of acc takes the next one; g counts what the parameters have.
GivenOut(z, n, k, acc, g) ==
  /\ acc \in Assigned(n) /\ InShares(z, n, k, acc.parts) /\ NoneAfter(acc.parts, acc.rank)
  /\ acc.numel = NumelOf(z, acc.parts[acc.rank])
  /\ acc.rank * ShareOf(z) + acc.numel <= g[k]

LEMMA FunctionIsSeq ==
  ASSUME NEW T, NEW m \in Nat, NEW f \in [1..m -> T]
  PROVE  f \in Seq(T) /\ Len(f) = m
  BY SeqDef, LenProperties

RanksInOrder(S, f, W) ==
  /\ ByRank(f) \in Seq(Seq(S)) /\ Len(ByRank(f)) = W /\ DOMAIN ByRank(f) = 1..W
  /\ \A j \in 1..W : ByRank(f)[j] = f[j - 1]

LEMMA InRankOrder ==
  ASSUME NEW S, NEW f \in [Workers -> Seq(S)], NEW W \in Nat \ {0}, W = WorldSize
  PROVE  RanksInOrder(S, f, W)
<1>1. \A j \in 1..W : j - 1 \in Workers
  BY WorkersAreCounted
<1>2. \A j \in 1..W : f[j - 1] \in Seq(S)
  BY <1>1
<1>3. PICK a : a = [j \in 1..W |-> f[j - 1]]
  OBVIOUS
<1>4. PICK T : T = Seq(S)
  OBVIOUS
<1>5. a \in [1..W -> T]
  BY <1>2, <1>3, <1>4
<1>6. W \in Nat
  OBVIOUS
<1>7. a \in Seq(T) /\ Len(a) = W
  BY <1>5, <1>6, FunctionIsSeq
<1>8. ByRank(f) = a
  BY <1>3 DEF ByRank
<1>9. QED
  BY <1>3, <1>4, <1>7, <1>8 DEF RanksInOrder

Takes(z, n, k, parts, r, more) ==
  /\ InShares(z, n, k, more) /\ NoneAfter(more, r)
  /\ NumelOf(z, more[r]) = NumelOf(z, parts[r]) + z[k]

(* The rank r takes a parameter behind those it has. *)
LEMMA RankTakes ==
  ASSUME NEW n \in Nat, NEW k \in 1..n, NEW z \in [1..n -> Nat], NEW parts,
         InShares(z, n, k - 1, parts), NEW r \in Workers, NoneAfter(parts, r),
         NumelOf(z, parts[r]) < ShareOf(z),
         NEW more, more = [parts EXCEPT ![r] = Append(parts[r], k)]
  PROVE  Takes(z, n, k, parts, r, more)
<1>1. parts \in [Workers -> Seq(1..n)] /\ FlattenSeq(ByRank(parts)) = FirstOnes(k - 1)
  BY DEF InShares, PartsOf
<1>2. WorldSize \in Nat \ {0} /\ Workers = 0..(WorldSize - 1)
  BY WorkersAreCounted
<1>3. PICK s \in Seq(1..n) : s = parts[r]
  BY <1>1
<1>4. PICK t \in Seq(1..n) : t = Append(s, k)
  <2>1. Append(s, k) \in Seq(1..n)
    BY AppendProperties
  <2>2. QED
    BY <2>1
<1>5. more \in [Workers -> Seq(1..n)] /\ more[r] = t /\ \A w \in Workers : w # r => more[w] = parts[w]
  BY <1>1, <1>3, <1>4
<1>6. PICK W \in Nat \ {0} : W = WorldSize
  BY <1>2
<1>7. PICK a \in Seq(Seq(1..n)) : /\ a = ByRank(parts) /\ Len(a) = W /\ DOMAIN a = 1..W
                                  /\ \A j \in 1..W : a[j] = parts[j - 1]
  <2>1. RanksInOrder(1..n, parts, W)
    BY <1>1, <1>6, InRankOrder
  <2>2. QED
    BY <2>1 DEF RanksInOrder
<1>8. PICK b \in Seq(Seq(1..n)) : /\ b = ByRank(more) /\ Len(b) = W /\ DOMAIN b = 1..W
                                  /\ \A j \in 1..W : b[j] = more[j - 1]
  <2>1. more \in [Workers -> Seq(1..n)]
    BY <1>5
  <2>2. RanksInOrder(1..n, more, W)
    BY <1>6, <2>1, InRankOrder
  <2>3. QED
    BY <2>2 DEF RanksInOrder
<1>9. PICK q \in 1..W : q = r + 1
  BY <1>2, <1>6
<1>10. Lengthens(a, b, q, k)
  <2>1. a[q] = s
    <3>1. a[q] = parts[q - 1] /\ q - 1 = r
      BY <1>2, <1>7, <1>9
    <3>2. QED
      BY <1>3, <3>1
  <2>2. b[q] = t
    <3>0. q - 1 = r
      BY <1>2, <1>9
    <3>1. b[q] = more[q - 1] /\ q - 1 = r
      BY <1>8, <3>0
    <3>2. QED
      BY <1>5, <3>1
  <2>3. ASSUME NEW j \in 1..W, j # q PROVE b[j] = a[j]
    <3>1. j - 1 \in Workers /\ j - 1 # r
      BY <1>2, <1>6, <1>9, <2>3
    <3>2. more[j - 1] = parts[j - 1]
      BY <1>5, <3>1
    <3>3. QED
      BY <1>7, <1>8, <3>2
  <2>4. QED
    BY <1>4, <1>7, <1>8, <2>1, <2>2, <2>3 DEF Lengthens
<1>11. OnlyNothingAfter(a, q)
  <2>1. ASSUME NEW j \in 1..W, j > q PROVE a[j] = <<>>
    <3>1. j - 1 \in Workers /\ j - 1 > r
      BY <1>2, <1>6, <1>9, <2>1
    <3>2. parts[j - 1] = <<>>
      BY <3>1 DEF NoneAfter
    <3>3. QED
      BY <1>7, <3>2
  <2>2. QED
    BY <1>7, <2>1 DEF OnlyNothingAfter
<1>12. FlattenSeq(b) = Append(FlattenSeq(a), k)
  <2>1. q \in DOMAIN a
    BY <1>7
  <2>2. FlattenLonger(1..n, a, b, k)
    BY <1>10, <1>11, <2>1, FlattenOfLonger
  <2>3. QED
    BY <2>2 DEF FlattenLonger
<1>13. FlattenSeq(ByRank(more)) = FirstOnes(k)
  <2>1. Append(FirstOnes(k - 1), k) = FirstOnes(k)
    BY FirstOnesOn
  <2>2. QED
    BY <1>1, <1>7, <1>8, <1>12, <2>1
<1>14. ASSUME NEW w \in Workers, more[w] # <<>>
       PROVE  NumelOf(z, Front(more[w])) < ShareOf(z)
  <2>1. CASE w = r
    <3>1. Front(t) = s
      BY <1>4, FrontOfMore
    <3>2. Front(more[w]) = parts[r]
      BY <1>3, <1>5, <2>1, <3>1
    <3>3. QED
      BY <3>2
  <2>2. CASE w # r
    <3>1. more[w] = parts[w]
      BY <1>5, <2>2
    <3>2. QED
      BY <1>14, <3>1 DEF InShares
  <2>3. QED
    BY <2>1, <2>2
<1>15. NoneAfter(more, r)
  <2>1. ASSUME NEW w \in Workers, w > r PROVE more[w] = <<>>
    <3>1. w # r
      BY <1>2, <2>1
    <3>2. QED
      BY <1>5, <2>1, <3>1 DEF NoneAfter
  <2>2. QED
    BY <2>1 DEF NoneAfter
<1>16. NumelOf(z, more[r]) = NumelOf(z, parts[r]) + z[k]
  <2>1. AddsSize(z, s, k)
    BY NumelOfMore
  <2>2. QED
    BY <1>3, <1>4, <1>5, <2>1 DEF AddsSize
<1>17. QED
  BY <1>5, <1>13, <1>14, <1>15, <1>16 DEF InShares, PartsOf, Takes

\* The products of a rank and a share, by name.
Before(r, share) == r * share

LEMMA RankBehind ==
  ASSUME NEW r \in Int, NEW share \in Nat
  PROVE  Before(r + 1, share) = Before(r, share) + share /\ Before(r, share) \in Int
<1>1. (r + 1) * share = r * share + share
  OBVIOUS
<1>2. r * share \in Int
  OBVIOUS
<1>3. QED
  BY <1>1, <1>2 DEF Before

\* The turn is the next rank's when this one has its share, but for the last one.
Full(acc, share) == acc.numel >= share /\ acc.rank < WorldSize - 1

TurnOf(acc, share) == IF Full(acc, share) THEN acc.rank + 1 ELSE acc.rank

HasRoom(z, acc, r) ==
  /\ NumelOf(z, acc.parts[r]) < ShareOf(z) /\ NoneAfter(acc.parts, r)
  /\ r # acc.rank => NumelOf(z, acc.parts[r]) = 0

(* The rank whose turn it is has less than its share. *)
LEMMA TurnHasRoom ==
  ASSUME NEW n \in Nat, NEW k \in 1..n, NEW z \in [1..n -> Nat], NEW g \in [0..n -> Nat],
         NEW acc, GivenOut(z, n, k - 1, acc, g), NEW r \in Workers,
         r = TurnOf(acc, ShareOf(z)),
         SharesSuffice(g[n], WorldSize, ShareOf(z)), g[k - 1] < g[n]
  PROVE  HasRoom(z, acc, r)
<1>1. /\ acc.rank \in Workers /\ acc.numel \in Nat /\ NoneAfter(acc.parts, acc.rank)
      /\ acc.numel = NumelOf(z, acc.parts[acc.rank])
      /\ acc.rank * ShareOf(z) + acc.numel <= g[k - 1]
  BY DEF GivenOut, Assigned
<1>2. WorldSize \in Nat \ {0} /\ Workers = 0..(WorldSize - 1)
  BY WorkersAreCounted
<1>3. PICK share \in Nat : share = ShareOf(z) /\ g[n] <= WorldSize * share /\ (g[n] > 0 => share > 0)
  BY DEF SharesSuffice
<1>4. g[k - 1] \in Nat /\ g[n] \in Nat
  <2>1. k - 1 \in 0..n /\ n \in 0..n
    OBVIOUS
  <2>2. QED
    BY <2>1
<1>5. CASE Full(acc, share)
  <2>1. r = acc.rank + 1 /\ r > acc.rank /\ r # acc.rank
    <3>1. r = TurnOf(acc, share)
      BY <1>3
    <3>2. r = acc.rank + 1
      BY <1>5, <3>1 DEF TurnOf
    <3>3. acc.rank \in Int
      BY <1>1, <1>2
    <3>4. QED
      BY <3>2, <3>3
  <2>2. acc.parts[r] = <<>>
    BY <1>1, <2>1 DEF NoneAfter
  <2>3. NumelOf(z, acc.parts[r]) = 0
    BY <2>2, NumelOfNone
  <2>4. share > 0
    BY <1>3, <1>4
  <2>5. NoneAfter(acc.parts, r)
    <3>1. ASSUME NEW w \in Workers, w > r PROVE w > acc.rank
      BY <1>1, <1>2, <2>1, <3>1
    <3>2. QED
      BY <1>1, <3>1 DEF NoneAfter
  <2>6. QED
    BY <1>3, <2>3, <2>4, <2>5 DEF HasRoom
<1>6. CASE ~Full(acc, share)
  <2>1. r = acc.rank
    BY <1>3, <1>6 DEF TurnOf
  <2>2. CASE acc.numel < share
    BY <1>1, <1>3, <2>1, <2>2 DEF HasRoom
  <2>3. CASE acc.numel >= share
    <3>1. acc.rank = WorldSize - 1
      <4>1. ~(acc.rank < WorldSize - 1)
        BY <1>6, <2>3 DEF Full
      <4>2. QED
        BY <1>1, <1>2, <4>1
    <3>2. PICK q \in Int : q = acc.rank /\ WorldSize = q + 1
      BY <1>1, <1>2, <3>1
    <3>3. Before(q + 1, share) = Before(q, share) + share /\ Before(q, share) \in Int
      BY RankBehind
    <3>4. Before(q, share) + acc.numel <= g[k - 1]
      BY <1>1, <1>3, <3>2 DEF Before
    <3>5. g[n] <= Before(q + 1, share)
      BY <1>3, <3>2 DEF Before
    <3>6. g[n] <= g[k - 1]
      BY <1>1, <1>4, <2>3, <3>3, <3>4, <3>5
    <3>7. QED
      BY <1>4, <3>6
  <2>4. acc.numel < share \/ acc.numel >= share
    BY <1>1
  <2>5. QED
    BY <2>2, <2>3, <2>4
<1>7. QED
  BY <1>3, <1>5, <1>6

(* One parameter more is given, to the rank whose turn it is. *)
LEMMA OneMoreGiven ==
  ASSUME NEW n \in Nat, NEW k \in 1..n, NEW z \in [1..n -> Nat], NEW g \in [0..n -> Nat],
         NEW acc, GivenOut(z, n, k - 1, acc, g), NEW r \in Workers,
         r = TurnOf(acc, ShareOf(z)),
         SharesSuffice(g[n], WorldSize, ShareOf(z)), g[k - 1] < g[n], g[k] = g[k - 1] + z[k],
         NEW next \in Assigned(n), next.rank = r,
         next.numel = IF Full(acc, ShareOf(z)) THEN z[k] ELSE acc.numel + z[k],
         next.parts = [acc.parts EXCEPT ![r] = Append(acc.parts[r], k)]
  PROVE  GivenOut(z, n, k, next, g)
<1>1. /\ acc.rank \in Workers /\ acc.numel \in Nat /\ InShares(z, n, k - 1, acc.parts)
      /\ acc.numel = NumelOf(z, acc.parts[acc.rank])
      /\ acc.rank * ShareOf(z) + acc.numel <= g[k - 1]
  BY DEF GivenOut, Assigned
<1>2. WorldSize \in Nat \ {0} /\ Workers = 0..(WorldSize - 1)
  BY WorkersAreCounted
<1>3. PICK share \in Nat : share = ShareOf(z)
  BY DEF SharesSuffice
<1>4. /\ NumelOf(z, acc.parts[r]) < ShareOf(z) /\ NoneAfter(acc.parts, r)
      /\ r # acc.rank => NumelOf(z, acc.parts[r]) = 0
  <2>1. HasRoom(z, acc, r)
    BY TurnHasRoom
  <2>2. QED
    BY <2>1 DEF HasRoom
<1>5. /\ InShares(z, n, k, next.parts) /\ NoneAfter(next.parts, r)
      /\ NumelOf(z, next.parts[r]) = NumelOf(z, acc.parts[r]) + z[k]
  <2>1. PICK more : more = next.parts
    OBVIOUS
  <2>2. Takes(z, n, k, acc.parts, r, more)
    BY <1>1, <1>4, <2>1, RankTakes
  <2>3. QED
    BY <2>1, <2>2 DEF Takes
<1>6. z[k] \in Nat /\ g[k] \in Nat /\ g[k - 1] \in Nat
  <2>1. k - 1 \in 0..n /\ k \in 0..n
    OBVIOUS
  <2>2. QED
    BY <2>1
<1>7. next.numel = NumelOf(z, next.parts[r]) /\ r * ShareOf(z) + next.numel <= g[k]
  <2>1. CASE Full(acc, share)
    <3>1. r = acc.rank + 1 /\ r # acc.rank /\ next.numel = z[k] /\ acc.rank \in Int
      BY <1>1, <1>2, <1>3, <2>1 DEF TurnOf
    <3>2. next.numel = NumelOf(z, next.parts[r])
      BY <1>4, <1>5, <1>6, <3>1
    <3>3. /\ Before(acc.rank + 1, share) = Before(acc.rank, share) + share
          /\ Before(acc.rank, share) \in Int
      BY <3>1, RankBehind
    <3>4. Before(acc.rank, share) + acc.numel <= g[k - 1] /\ acc.numel >= share
      BY <1>1, <1>3, <2>1 DEF Before, Full
    <3>5. Before(acc.rank + 1, share) + z[k] <= g[k]
      BY <1>1, <1>6, <3>3, <3>4
    <3>6. r * ShareOf(z) = Before(acc.rank + 1, share)
      BY <1>3, <3>1 DEF Before
    <3>7. QED
      BY <3>1, <3>2, <3>5, <3>6
  <2>2. CASE ~Full(acc, share)
    <3>1. r = acc.rank /\ next.numel = acc.numel + z[k]
      BY <1>3, <2>2 DEF TurnOf
    <3>2. next.numel = NumelOf(z, next.parts[r])
      BY <1>1, <1>5, <3>1
    <3>3. PICK b \in Int : b = r * ShareOf(z)
      BY <1>2, <1>3
    <3>4. b + acc.numel <= g[k - 1]
      BY <1>1, <3>1, <3>3
    <3>5. b + next.numel <= g[k]
      BY <1>1, <1>6, <3>1, <3>4
    <3>6. QED
      BY <3>2, <3>3, <3>5
  <2>3. QED
    BY <2>1, <2>2
<1>8. QED
  BY <1>5, <1>7 DEF GivenOut

LEMMA ShareIs == PartitionSize = ShareOf(sizes)
<1>1. Numel(Params) = NumelOf(sizes, [i \in DOMAIN sizes |-> i])
  BY NumelIs DEF Params
<1>2. QED
  BY <1>1 DEF PartitionSize, ShareOf, TotalOf

\* What AssignParam() makes of acc.
Assigns(n, acc, p, next) ==
  /\ next \in Assigned(n) /\ next.rank = TurnOf(acc, ShareOf(sizes))
  /\ next.numel = IF Full(acc, ShareOf(sizes)) THEN sizes[p] ELSE acc.numel + sizes[p]
  /\ next.parts = [acc.parts EXCEPT ![next.rank] = Append(acc.parts[next.rank], p)]

LEMMA TurnIsWorkers ==
  ASSUME NEW acc, acc.rank \in Workers, NEW share
  PROVE  TurnOf(acc, share) \in Workers
<1>1. WorldSize \in Nat \ {0} /\ Workers = 0..(WorldSize - 1)
  BY WorkersAreCounted
<1>2. CASE Full(acc, share)
  <2>1. acc.rank < WorldSize - 1 /\ TurnOf(acc, share) = acc.rank + 1
    BY <1>2 DEF Full, TurnOf
  <2>2. QED
    BY <1>1, <2>1
<1>3. CASE ~Full(acc, share)
  BY <1>3 DEF TurnOf
<1>4. QED
  BY <1>2, <1>3

LEMMA AssignParamAssigns ==
  ASSUME NEW n \in Nat, sizes \in [1..n -> Nat], NEW acc \in Assigned(n), NEW p \in 1..n
  PROVE  Assigns(n, acc, p, AssignParam(acc, p))
<1> DEFINE share == ShareOf(sizes)
           r == TurnOf(acc, share)
           num == IF Full(acc, share) THEN sizes[p] ELSE acc.numel + sizes[p]
           q == [acc.parts EXCEPT ![r] = Append(acc.parts[r], p)]
<1>1. AssignParam(acc, p) = [rank |-> r, numel |-> num, parts |-> q]
  <2>1. PartitionSize = share
    BY ShareIs
  <2>2. QED
    BY <2>1 DEF AssignParam, TurnOf, Full
<1>2. acc.rank \in Workers /\ acc.numel \in Nat /\ acc.parts \in [Workers -> Seq(1..n)]
  BY DEF Assigned, PartsOf
<1>3. r \in Workers
  BY <1>2, TurnIsWorkers
<1>4. num \in Nat
  <2>1. sizes[p] \in Nat
    OBVIOUS
  <2>2. QED
    BY <1>2, <2>1
<1>5. q \in PartsOf(n)
  <2>1. acc.parts[r] \in Seq(1..n)
    BY <1>2, <1>3
  <2>2. Append(acc.parts[r], p) \in Seq(1..n)
    BY <2>1, AppendProperties
  <2>3. QED
    BY <1>2, <1>3, <2>2 DEF PartsOf
<1>6. PICK next : next = AssignParam(acc, p)
  OBVIOUS
<1> HIDE DEF r, num, q
<1>7. next.rank = r /\ next.numel = num /\ next.parts = q /\ next \in Assigned(n)
  BY <1>1, <1>3, <1>4, <1>5, <1>6 DEF Assigned
<1>8. Assigns(n, acc, p, next)
  BY <1>7 DEF Assigns, r, num, q
<1>9. QED
  BY <1>6, <1>8

-----------------------------------------------------------------------------
NoneYet == [rank |-> 0, numel |-> 0, parts |-> [w \in Workers |-> <<>>]]
PartitionOf(listed) == FoldLeft(AssignParam, NoneYet, listed)

PartitionOfFolds(listed, c) ==
  c = [s \in SUBSET (DOMAIN listed) |->
         IF s = {} THEN NoneYet ELSE AssignParam(c[s \ {Max(s)}], listed[Max(s)])]

\* The steps of the fold stay in A, and the values it goes through are in it.
PartitionOfStays(listed, n, A) == \A k \in 1..n, a \in A : AssignParam(a, listed[k]) \in A
PartitionOfPasses(listed, n, A) ==
  \E h \in [0..n -> A] : /\ h[0] = NoneYet /\ h[n] = PartitionOf(listed)
                         /\ \A k \in 1..n : h[k] = AssignParam(h[k - 1], listed[k])

LEMMA PartitionReachesUnfolds ==
  ASSUME NEW listed
  PROVE  PartitionOf(listed) = (CHOOSE c : PartitionOfFolds(listed, c))[DOMAIN listed]
  BY DEF PartitionOf, FoldLeft, MapThenFoldSet, PartitionOfFolds

(* The partition is what the parameters make of it one by one. *)
LEMMA PartitionReaches ==
  ASSUME NEW listed, NEW n \in Nat, DOMAIN listed = 1..n,
         NEW A, NoneYet \in A,
         PartitionOfStays(listed, n, A)
  PROVE  PartitionOfPasses(listed, n, A)
<1> DEFINE step == [p \in (1..n) \X A |-> AssignParam(p[2], listed[p[1]])]
           c == CHOOSE c : PartitionOfFolds(listed, c)
           h == [k \in 0..n |-> c[1..k]]
<1>2. \A k \in 1..n, a \in A : step[<<k, a>>] = AssignParam(a, listed[k])
  OBVIOUS
<1>3. PICK g \in [SUBSET (1..n) -> A] : Folds(NoneYet, step, n, g)
  <2>1. \A k \in 1..n, a \in A : step[<<k, a>>] \in A
    <3> HIDE DEF step
    <3>1. QED
      BY <1>2 DEF PartitionOfStays
  <2> HIDE DEF step
  <2>2. QED
    BY <2>1, FoldExists
<1>4. PartitionOfFolds(listed, g)
  <2>1. ASSUME NEW s \in SUBSET (1..n), s # {}
        PROVE  step[<<Max(s), g[s \ {Max(s)}]>>] = AssignParam(g[s \ {Max(s)}], listed[Max(s)])
    <3>1. Max(s) \in 1..n
      BY <2>1, GreatestOf
    <3>2. s \ {Max(s)} \in SUBSET (1..n)
      OBVIOUS
    <3>3. g[s \ {Max(s)}] \in A
      BY <3>2
    <3> HIDE DEF step
    <3>4. QED
      BY <1>2, <3>1, <3>3
  <2> HIDE DEF step
  <2>2. QED
    BY <1>3, <2>1 DEF PartitionOfFolds, Folds
<1>5. PartitionOfFolds(listed, c)
  <2> HIDE DEF step
  <2>1. \E d : PartitionOfFolds(listed, d)
    BY <1>4
  <2>2. QED
    BY <2>1
<1> HIDE DEF step, c
<1>6. c[{}] = NoneYet /\ \A k \in 1..n : c[1..k] = AssignParam(c[1..(k - 1)], listed[k])
  <2>1. c[{}] = NoneYet
    BY <1>5 DEF PartitionOfFolds
  <2>2. ASSUME NEW k \in 1..n PROVE c[1..k] = AssignParam(c[1..(k - 1)], listed[k])
    <3>1. /\ 1..k \in SUBSET (1..n) /\ 1..k # {}
          /\ Max(1..k) = k /\ (1..k) \ {k} = 1..(k - 1)
      BY PrefixEnds
    <3>2. QED
      BY <1>5, <3>1 DEF PartitionOfFolds
  <2>3. QED
    BY <2>1, <2>2
<1>7. h[0] = NoneYet /\ \A k \in 1..n : h[k] = AssignParam(h[k - 1], listed[k])
  BY <1>6
<1>8. h \in [0..n -> A]
  <2>1. h = [k \in 0..n |-> h[k]]
    OBVIOUS
  <2> HIDE DEF h
  <2>2. \A k \in 1..n : h[k - 1] \in A => h[k] \in A
    BY <1>7 DEF PartitionOfStays
  <2>3. \A k \in 0..n : h[k] \in A
    BY <1>7, <2>2, FoldStays
  <2>4. QED
    BY <2>1, <2>3
<1>9. PartitionOf(listed) = h[n]
  BY PartitionReachesUnfolds DEF c
<1>10. QED
  BY <1>7, <1>8, <1>9 DEF PartitionOfPasses

LEMMA NoneYetIsAssigned == ASSUME NEW n \in Nat PROVE NoneYet \in Assigned(n)
<1>1. 0 \in Workers
  BY WorkersAreCounted
<1>2. [w \in Workers |-> <<>>] \in PartsOf(n)
  <2>1. <<>> \in Seq(1..n)
    OBVIOUS
  <2>2. QED
    BY <2>1 DEF PartsOf
<1>3. QED
  BY <1>1, <1>2 DEF NoneYet, Assigned

LEMMA FlattenOfNothing ==
  ASSUME NEW n \in Nat
  PROVE  FlattenSeq(ByRank([w \in Workers |-> <<>>])) = <<>>
<1>1. PICK W \in Nat \ {0} : W = WorldSize /\ Workers = 0..(W - 1)
  BY WorkersAreCounted
<1>2. PICK f : f = [w \in Workers |-> <<>>]
  OBVIOUS
<1>3. f \in [Workers -> Seq(1..n)]
  <2>1. <<>> \in Seq(1..n)
    OBVIOUS
  <2>2. QED
    BY <1>2, <2>1
<1>4. RanksInOrder(1..n, f, W)
  BY <1>1, <1>3, InRankOrder
<1>5. PICK a \in Seq(Seq(1..n)) : /\ a = ByRank(f) /\ Len(a) = W /\ DOMAIN a = 1..W
                                  /\ \A j \in 1..W : a[j] = f[j - 1]
  BY <1>4 DEF RanksInOrder
<1>6. \A j \in 1..W : a[j] = <<>>
  <2>1. \A j \in 1..W : j - 1 \in Workers
    BY <1>1
  <2>2. QED
    BY <1>2, <1>5, <2>1
<1>7. FlattensBy(a, W, a)
  <2>1. \A j \in 2..W : j \in 1..W /\ j - 1 \in 1..W
    OBVIOUS
  <2>2. <<>> \o <<>> = <<>>
    OBVIOUS
  <2>3. QED
    BY <1>6, <2>1, <2>2 DEF FlattensBy
<1>8. FlattenSeq(a) = a[W]
  BY <1>5, <1>7, FlattenIs
<1>9. a[W] = <<>>
  <2>1. W \in 1..W
    OBVIOUS
  <2>2. QED
    BY <1>6, <2>1
<1>10. FlattenSeq(ByRank(f)) = <<>>
  BY <1>5, <1>8, <1>9
<1>11. QED
  BY <1>2, <1>10

(* The fold, from no parameter to all. *)
LEMMA PartitionIsInShares ==
  ASSUME NEW n \in Nat, sizes \in [1..n -> Nat \ {0}]
  PROVE  InShares(sizes, n, n, PartitionParameters.parts)
<1> DEFINE A == Assigned(n)
<1>0. sizes \in [1..n -> Nat] /\ \A k \in 1..n : sizes[k] \in Nat /\ sizes[k] > 0
  OBVIOUS
<1>1. PICK listed : listed = [i \in 1..n |-> i]
  OBVIOUS
<1>2. DOMAIN listed = 1..n /\ (\A k \in 1..n : listed[k] = k) /\ Params = listed
  BY <1>1 DEF Params
<1>3. PICK g \in [0..n -> Nat] : Counts(sizes, listed, n, g) /\ g[n] = NumelOf(sizes, listed)
  <2>1. \A k \in 1..n : sizes[listed[k]] \in Nat
    BY <1>0, <1>2
  <2>2. Counted(sizes, listed, n)
    BY <1>2, <2>1, NumelIsCounted
  <2>3. QED
    BY <2>2 DEF Counted
<1>4. TotalOf(sizes) = g[n]
  <2>1. DOMAIN sizes = 1..n
    OBVIOUS
  <2>2. QED
    BY <1>1, <1>3, <2>1 DEF TotalOf
<1>5. g[0] = 0 /\ \A k \in 1..n : g[k] = g[k - 1] + sizes[k]
  BY <1>2, <1>3 DEF Counts
<1>6. \A k \in 1..n : g[k - 1] < g[n]
  <2> DEFINE P == {j \in 0..n : j # 0 => g[n - j] < g[n]}
  <2>1. 0 \in P
    OBVIOUS
  <2>2. ASSUME NEW j \in 1..n, j - 1 \in P PROVE j \in P
    <3>1. n - j + 1 \in 1..n /\ n - j \in 0..n /\ n - j + 1 \in 0..n /\ n \in 0..n
      OBVIOUS
    <3>2. PICK m \in 1..n : m = n - j + 1 /\ m - 1 = n - j
      BY <3>1
    <3>3. g[m] = g[m - 1] + sizes[m] /\ sizes[m] > 0 /\ sizes[m] \in Nat
      BY <1>0, <1>5
    <3>4. g[m] \in Nat /\ g[m - 1] \in Nat /\ g[n] \in Nat
      BY <3>1, <3>2
    <3>5. g[m - 1] < g[m]
      BY <3>3, <3>4
    <3>6. CASE j = 1
      <4>1. m = n
        BY <3>2, <3>6
      <4>2. QED
        BY <3>2, <3>5, <4>1
    <3>7. CASE j # 1
      <4>1. j - 1 # 0 /\ n - (j - 1) = m
        BY <3>2, <3>7
      <4>2. g[m] < g[n]
        BY <2>2, <4>1
      <4>3. QED
        BY <3>2, <3>4, <3>5, <4>2
    <3>8. QED
      BY <3>6, <3>7
  <2>3. \A j \in 0..n : j \in P
    <3> HIDE DEF P
    <3>1. QED
      BY <2>1, <2>2, NaturalInduction
  <2>4. ASSUME NEW k \in 1..n PROVE g[k - 1] < g[n]
    <3>1. PICK j \in 0..n : j = n - (k - 1) /\ j # 0 /\ n - j = k - 1
      OBVIOUS
    <3>2. j \in P
      BY <2>3
    <3>3. QED
      BY <3>1, <3>2
  <2>5. QED
    BY <2>4
<1>7. SharesSuffice(g[n], WorldSize, ShareOf(sizes))
  <2>1. g[n] \in Nat
    OBVIOUS
  <2>2. SharesSuffice(g[n], WorldSize, (g[n] + WorldSize - 1) \div WorldSize)
    BY <2>1, ShareSuffices, WorkersAreCounted
  <2>3. QED
    BY <1>4, <2>2 DEF ShareOf
<1>8. PICK h \in [0..n -> A] : /\ h[0] = NoneYet /\ h[n] = PartitionOf(listed)
                               /\ \A k \in 1..n : h[k] = AssignParam(h[k - 1], listed[k])
  <2>1. NoneYet \in A
    BY NoneYetIsAssigned
  <2>2. \A k \in 1..n, a \in A : AssignParam(a, listed[k]) \in A
    <3>1. ASSUME NEW k \in 1..n, NEW a \in A PROVE AssignParam(a, listed[k]) \in A
      <4>1. Assigns(n, a, k, AssignParam(a, k))
        BY <1>0, AssignParamAssigns
      <4>2. QED
        BY <1>2, <4>1 DEF Assigns
    <3>2. QED
      BY <3>1
  <2>3. PartitionOfStays(listed, n, A)
    BY <2>2 DEF PartitionOfStays
  <2> HIDE DEF A
  <2>4. PartitionOfPasses(listed, n, A)
    BY <1>2, <2>1, <2>3, PartitionReaches
  <2>5. QED
    BY <2>4 DEF PartitionOfPasses
<1> DEFINE P == {k \in 0..n : GivenOut(sizes, n, k, h[k], g)}
<1>9. 0 \in P
  <2>1. PICK acc : acc = NoneYet
    OBVIOUS
  <2>2. /\ acc.rank = 0 /\ acc.numel = 0 /\ acc.parts = [w \in Workers |-> <<>>]
        /\ acc \in Assigned(n) /\ 0 \in Workers
    BY <2>1, NoneYetIsAssigned, WorkersAreCounted DEF NoneYet
  <2>3. \A w \in Workers : acc.parts[w] = <<>>
    BY <2>2
  <2>4. FlattenSeq(ByRank(acc.parts)) = FirstOnes(0)
    <3>1. FirstOnes(0) = <<>>
      BY DEF FirstOnes
    <3>2. QED
      BY <2>2, <3>1, FlattenOfNothing
  <2>5. InShares(sizes, n, 0, acc.parts) /\ NoneAfter(acc.parts, acc.rank)
    BY <2>2, <2>3, <2>4 DEF InShares, NoneAfter, Assigned
  <2>6. acc.numel = NumelOf(sizes, acc.parts[acc.rank])
    BY <2>2, <2>3, NumelOfNone
  <2>7. acc.rank * ShareOf(sizes) + acc.numel <= g[0]
    <3>1. PICK s \in Int : s = ShareOf(sizes)
      BY <1>7 DEF SharesSuffice
    <3>2. 0 * s + 0 = 0
      OBVIOUS
    <3>3. QED
      BY <1>5, <2>2, <3>1, <3>2
  <2>8. GivenOut(sizes, n, 0, acc, g)
    BY <2>2, <2>5, <2>6, <2>7 DEF GivenOut
  <2>9. QED
    BY <1>8, <2>1, <2>8
<1>10. ASSUME NEW k \in 1..n, k - 1 \in P PROVE k \in P
  <2>1. PICK acc : acc = h[k - 1] /\ GivenOut(sizes, n, k - 1, acc, g)
    BY <1>10
  <2>2. acc \in Assigned(n)
    BY <2>1 DEF GivenOut
  <2>3. PICK next : next = AssignParam(acc, k) /\ Assigns(n, acc, k, next)
    BY <1>0, <2>2, AssignParamAssigns
  <2>4. PICK r : r = next.rank
    OBVIOUS
  <2>5. /\ r = TurnOf(acc, ShareOf(sizes)) /\ r \in Workers /\ next \in Assigned(n)
        /\ next.numel = IF Full(acc, ShareOf(sizes)) THEN sizes[k] ELSE acc.numel + sizes[k]
        /\ next.parts = [acc.parts EXCEPT ![r] = Append(acc.parts[r], k)]
    BY <2>3, <2>4 DEF Assigns, Assigned
  <2>6. g[k - 1] < g[n] /\ g[k] = g[k - 1] + sizes[k]
    BY <1>5, <1>6
  <2>7. GivenOut(sizes, n, k, next, g)
    BY <1>0, <1>7, <2>1, <2>4, <2>5, <2>6, OneMoreGiven
  <2>8. h[k] = next
    BY <1>2, <1>8, <2>1, <2>3
  <2>9. QED
    BY <2>7, <2>8
<1>11. n \in P
  <2> HIDE DEF P
  <2>1. n \in 0..n
    OBVIOUS
  <2>2. QED
    BY <1>9, <1>10, <2>1, NaturalInduction
<1>12. PartitionParameters = h[n]
  BY <1>2, <1>8 DEF PartitionParameters, PartitionOf, NoneYet
<1>13. QED
  BY <1>11, <1>12 DEF GivenOut

\* A model of n parameters, each with at least one element.
Sizes(n, z) == n \in Nat /\ z \in [1..n -> Nat \ {0}]

\* What the buckets, the partition and the broadcasts are of the model z.
BucketsDone(z, bs) == \E n \in Nat : Sizes(n, z) /\ Bucketed(z, n, n, bs)
PartitionDone(z, parts) == \E n \in Nat : Sizes(n, z) /\ InShares(z, n, n, parts)
Untouched == [w \in Workers |-> <<>>]

DividedInvariant ==
  /\ \E n \in Nat : Sizes(n, sizes)
  /\ buckets # <<>> => BucketsDone(sizes, buckets)
  /\ partitions = Untouched \/ PartitionDone(sizes, partitions)
  /\ gathered # <<>> => gathered = [i \in DOMAIN sizes |-> i]

LEMMA DataParallelStarts == ASSUME DataParallelInit PROVE DividedInvariant
<1>1. \E n \in Nat : Sizes(n, sizes)
  <2>1. \E m \in 0..MaxParams : sizes \in [1..m -> ParamSizes]
    BY DEF DataParallelInit, SeqOf
  <2>2. PICK m \in 0..MaxParams : sizes \in [1..m -> ParamSizes]
    BY <2>1
  <2>3. m \in Nat /\ ParamSizes \subseteq Nat \ {0}
    BY DataParallelAssumption
  <2>4. sizes \in [1..m -> Nat \ {0}]
    BY <2>2, <2>3
  <2>5. QED
    BY <2>3, <2>4 DEF Sizes
<1>2. QED
  BY <1>1 DEF DataParallelInit, DividedInvariant, Untouched

(* The constructor of DistributedDataParallel makes all the buckets. *)
LEMMA WrapDDPKeeps ==
  ASSUME DividedInvariant, WrapDDP
  PROVE  DividedInvariant'
<1>1. PICK n \in Nat : Sizes(n, sizes)
  BY DEF DividedInvariant
<1>2. sizes \in [1..n -> Nat]
  BY <1>1 DEF Sizes
<1>3. PICK bs : bs = BuildBuckets /\ Bucketed(sizes, n, n, bs)
  BY <1>2, BucketsAreInOrder
<1>4. BucketsDone(sizes, bs)
  BY <1>1, <1>3 DEF BucketsDone
<1>5. /\ buckets' = bs /\ sizes' = sizes /\ partitions' = partitions /\ gathered' = gathered
  BY <1>3 DEF WrapDDP
<1>6. BucketsDone(sizes', buckets')
  BY <1>4, <1>5
<1>7. QED
  BY <1>1, <1>5, <1>6 DEF DividedInvariant, Untouched

LEMMA WrapZeROKeeps ==
  ASSUME DividedInvariant, WrapZeRO
  PROVE  DividedInvariant'
<1>1. PICK n \in Nat : Sizes(n, sizes)
  BY DEF DividedInvariant
<1>2. PICK parts : parts = PartitionParameters.parts /\ InShares(sizes, n, n, parts)
  BY <1>1, PartitionIsInShares DEF Sizes
<1>3. PartitionDone(sizes, parts)
  BY <1>1, <1>2 DEF PartitionDone
<1>4. /\ partitions' = parts /\ sizes' = sizes /\ buckets' = buckets /\ gathered' = gathered
  BY <1>2 DEF WrapZeRO
<1>5. PartitionDone(sizes', partitions')
  BY <1>3, <1>4
<1>6. QED
  BY <1>1, <1>4, <1>5 DEF DividedInvariant

(* The ranks broadcast what they have: nothing without a partition, else everything. *)
LEMMA ZeROStepKeeps ==
  ASSUME DividedInvariant, ZeROStep
  PROVE  DividedInvariant'
<1>1. gathered' = FlattenSeq(ByRank(partitions))
  BY DEF ZeROStep, ByRank
<1>2. sizes' = sizes /\ buckets' = buckets /\ partitions' = partitions
  BY DEF ZeROStep
<1>3. gathered' # <<>> => gathered' = [i \in DOMAIN sizes |-> i]
  <2>1. CASE partitions = Untouched
    <3>1. 0 \in Nat
      OBVIOUS
    <3>2. FlattenSeq(ByRank(partitions)) = <<>>
      BY <2>1, <3>1, FlattenOfNothing DEF Untouched
    <3>3. QED
      BY <1>1, <3>2
  <2>2. CASE PartitionDone(sizes, partitions)
    <3>1. PICK n \in Nat : Sizes(n, sizes) /\ InShares(sizes, n, n, partitions)
      BY <2>2 DEF PartitionDone
    <3>2. DOMAIN sizes = 1..n /\ FlattenSeq(ByRank(partitions)) = FirstOnes(n)
      BY <3>1 DEF Sizes, InShares
    <3>3. QED
      BY <1>1, <3>2 DEF FirstOnes
  <2>3. QED
    BY <2>1, <2>2 DEF DividedInvariant
<1>4. QED
  BY <1>2, <1>3 DEF DividedInvariant, Untouched

LEMMA DataParallelStep ==
  ASSUME DividedInvariant, [DataParallelNext]_dataParallelVars
  PROVE  DividedInvariant'
<1>1. CASE WrapDDP
  BY <1>1, WrapDDPKeeps
<1>2. CASE WrapZeRO
  BY <1>2, WrapZeROKeeps
<1>3. CASE ZeROStep
  BY <1>3, ZeROStepKeeps
<1>4. CASE /\ UNCHANGED <<sizes, buckets, partitions, gathered>>
  BY <1>4 DEF DividedInvariant, Untouched
<1>5. ASSUME NEW p \in DOMAIN sizes, MarkGradReady(p)
      PROVE  UNCHANGED <<sizes, buckets, partitions, gathered>>
  BY <1>5 DEF MarkGradReady
<1>6. CASE UNCHANGED dataParallelVars
  BY <1>4, <1>6 DEF dataParallelVars
<1>7. QED
  BY <1>1, <1>2, <1>3, <1>4, <1>5, <1>6 DEF DataParallelNext

LEMMA ReversedIsReverse ==
  ASSUME NEW n \in Nat, DOMAIN sizes = 1..n, NEW s, Reversed(n, n, s)
  PROVE  s = Reverse(Params)
<1>1. Params = [i \in 1..n |-> i]
  BY DEF Params
<1>2. Len(Params) = n /\ \A i \in 1..n : Params[i] = i
  BY <1>1
<1>3. PICK r : r = Reverse(Params)
  OBVIOUS
<1>4. r = [i \in 1..n |-> Params[(n - i) + 1]]
  BY <1>2, <1>3 DEF Reverse
<1>5. \A i \in 1..n : r[i] = s[i]
  <2>1. ASSUME NEW i \in 1..n PROVE r[i] = s[i]
    <3>1. (n - i) + 1 \in 1..n /\ (n - i) + 1 = n + 1 - i
      OBVIOUS
    <3>2. r[i] = n + 1 - i
      BY <1>2, <1>4, <3>1
    <3>3. QED
      BY <3>2 DEF Reversed
  <2>2. QED
    BY <2>1
<1>6. s \in Seq(1..n) /\ Len(s) = n
  BY DEF Reversed
<1>7. s = [i \in 1..n |-> s[i]]
  BY <1>6
<1>8. QED
  BY <1>3, <1>4, <1>5, <1>7

LEMMA DividedIs == ASSUME DividedInvariant PROVE DividedInOrder
<1>1. ASSUME buckets # <<>>
      PROVE  /\ FlattenSeq(buckets) = Reverse(Params)
             /\ \A b \in DOMAIN buckets : Numel(buckets[b]) <= BucketCap \/ Len(buckets[b]) = 1
  <2>1. PICK n \in Nat : Sizes(n, sizes) /\ Bucketed(sizes, n, n, buckets)
    BY <1>1 DEF DividedInvariant, BucketsDone
  <2>2. DOMAIN sizes = 1..n
    BY <2>1 DEF Sizes
  <2>3. FlattenSeq(buckets) = Reverse(Params)
    BY <2>1, <2>2, ReversedIsReverse DEF Bucketed
  <2>4. QED
    BY <2>1, <2>3, NumelIs DEF Bucketed
<1>2. ASSUME NEW w \in Workers, partitions[w] # <<>>
      PROVE  Numel(Front(partitions[w])) < PartitionSize
  <2>1. partitions # Untouched
    BY <1>2 DEF Untouched
  <2>2. PICK n \in Nat : InShares(sizes, n, n, partitions)
    BY <2>1 DEF DividedInvariant, PartitionDone
  <2>3. NumelOf(sizes, Front(partitions[w])) < ShareOf(sizes)
    BY <1>2, <2>2 DEF InShares
  <2>4. QED
    BY <2>3, NumelIs, ShareIs
<1>3. gathered # <<>> => gathered = Params
  BY DEF DividedInvariant, Params
<1>4. QED
  BY <1>1, <1>2, <1>3 DEF DividedInOrder

(* For any ranks, sizes and limit: the buckets hold each parameter once, the last one
   first, and only a parameter too large by itself makes one exceed the limit; the ranks
   hold them in order, each less than its share before its last, and broadcast all. *)
THEOREM ParametersAreDivided == DataParallelSpec => []DividedInOrder
<1>1. DataParallelInit => DividedInvariant
  BY DataParallelStarts
<1>2. DividedInvariant /\ [DataParallelNext]_dataParallelVars => DividedInvariant'
  BY DataParallelStep
<1>3. DividedInvariant => DividedInOrder
  BY DividedIs
<1>4. QED
  BY <1>1, <1>2, <1>3, PTL DEF DataParallelSpec
-----------------------------------------------------------------------------
\* A behaviour of an application that is one of the pool, or of the current device.
SharedInvariant == /\ part = "pool" => StreamsInvariant
                   /\ part = "device" => ContextInvariant

LEMMA SharedStart == Init => SharedInvariant
<1>1. Init => DevicePoolInit /\ CurrentDeviceInit
  BY DEF Init, DeviceInit
<1>2. QED
  BY <1>1, StreamsStart, ContextsStart DEF SharedInvariant

LEMMA SharedStep == SharedInvariant /\ [Next]_applicationVars => SharedInvariant'
<1> SUFFICES ASSUME SharedInvariant, [Next]_applicationVars
             PROVE  SharedInvariant'
  OBVIOUS
<1>1. /\ part' = part
      /\ part = "pool" => [DevicePoolNext]_devicePoolVars
      /\ part = "device" => [CurrentDeviceNext]_deviceVars
  BY DEF Next, PartOfTrust, PartOfDevices, PartOfModels, PartOfData, applicationVars,
         deviceSideVars
<1>2. CASE part = "pool"
  <2>1. StreamsInvariant'
    BY <1>1, <1>2, StreamsStep DEF SharedInvariant
  <2>2. QED
    BY <1>1, <1>2, <2>1 DEF SharedInvariant
<1>3. CASE part = "device"
  <2>1. ContextInvariant'
    BY <1>1, <1>3, ContextsStep DEF SharedInvariant
  <2>2. QED
    BY <1>1, <1>3, <2>1 DEF SharedInvariant
<1>4. CASE part \notin {"pool", "device"}
  BY <1>1, <1>4 DEF SharedInvariant
<1>5. QED
  BY <1>2, <1>3, <1>4

(* For any threads, devices and streams of an application: a stream that no two
   threads found free has one user, and leaving a context restores what was current. *)
THEOREM DevicesStayShared == Spec => []DevicesShared
<1>1. SharedInvariant => DevicesShared
  BY OneUserCounts, CurrentIsRestored DEF SharedInvariant, DevicesShared
<1>2. QED
  BY <1>1, SharedStart, SharedStep, PTL DEF Spec
-----------------------------------------------------------------------------
\* A behaviour of an application that is one of a model's training.
TrainingInvariant == /\ part = "parallel" => DividedInvariant
                     /\ part = "pipeline" => PipelineInvariant
                     /\ part = "schedule" => ScheduleInvariant
                     /\ part = "optimizer" => OptimizerInvariant

LEMMA TrainingStart == Init => TrainingInvariant
<1>1. Init => DataParallelInit /\ PipelineInit /\ ScheduleInit /\ OptimizerInit
  BY DEF Init, DeviceInit, ModelInit
<1>2. QED
  BY <1>1, DataParallelStarts, PipelineStarts, ScheduleStarts, OptimizerStarts
     DEF TrainingInvariant

LEMMA TrainingStep == TrainingInvariant /\ [Next]_applicationVars => TrainingInvariant'
<1> SUFFICES ASSUME TrainingInvariant, [Next]_applicationVars
             PROVE  TrainingInvariant'
  OBVIOUS
<1>1. /\ part' = part
      /\ part = "parallel" => [DataParallelNext]_dataParallelVars
      /\ part = "pipeline" => [PipelineNext]_pipelineVars
      /\ part = "schedule" => [ScheduleNext]_scheduleVars
      /\ part = "optimizer" => [OptimizerNext]_optimizerVars
  BY DEF Next, PartOfTrust, PartOfDevices, PartOfModels, PartOfData, applicationVars,
         deviceSideVars, modelVars
<1>2. CASE part = "parallel"
  <2>1. DividedInvariant'
    BY <1>1, <1>2, DataParallelStep DEF TrainingInvariant
  <2>2. QED
    BY <1>1, <1>2, <2>1 DEF TrainingInvariant
<1>3. CASE part = "pipeline"
  <2>1. PipelineInvariant'
    BY <1>1, <1>3, PipelineStep DEF TrainingInvariant
  <2>2. QED
    BY <1>1, <1>3, <2>1 DEF TrainingInvariant
<1>4. CASE part = "schedule"
  <2>1. ScheduleInvariant'
    BY <1>1, <1>4, ScheduleStep DEF TrainingInvariant
  <2>2. QED
    BY <1>1, <1>4, <2>1 DEF TrainingInvariant
<1>5. CASE part = "optimizer"
  <2>1. OptimizerInvariant'
    BY <1>1, <1>5, OptimizerStep DEF TrainingInvariant
  <2>2. QED
    BY <1>1, <1>5, <2>1 DEF TrainingInvariant
<1>6. CASE part \notin {"parallel", "pipeline", "schedule", "optimizer"}
  BY <1>1, <1>6 DEF TrainingInvariant
<1>7. QED
  BY <1>2, <1>3, <1>4, <1>5, <1>6

(* For any model, workers, stages and parameters of an application: training divides the
   parameters in order, passes micro-batches from stage to stage, keeps the rate scaled
   by its workers, and an optimizer's state with the parameter it is for. *)
THEOREM TrainingStaysSound == Spec => []TrainingHolds
<1>1. TrainingInvariant => TrainingHolds
  <2>1. ScheduleInvariant => RateScaled
    BY DEF ScheduleInvariant
  <2>2. QED
    BY <2>1, DividedIs, StagesAreInOrder, StateFollows DEF TrainingInvariant, TrainingHolds
<1>2. QED
  BY <1>1, TrainingStart, TrainingStep, PTL DEF Spec
-----------------------------------------------------------------------------
\* A behaviour of an application that is one of a model and what it is made of.
ModelsInvariant == /\ part = "tensors" => TensorInvariant
                   /\ part = "layers" => LayerInvariant
                   /\ part = "modules" => ModuleInvariant
                   /\ part = "calibration" => QuantizationInvariant

LEMMA ModelsStart == Init => ModelsInvariant
<1> SUFFICES ASSUME Init PROVE ModelsInvariant
  OBVIOUS
<1>1. TensorInit /\ LayerInit /\ ModuleInit /\ CalibrationInit
  BY DEF Init, ModelInit
<1>2. TensorInvariant /\ LayerInvariant /\ ModuleInvariant /\ QuantizationInvariant
  BY <1>1, TensorsStart, LayersStart, ModuleStart, QuantizationStart
<1>3. QED
  BY <1>2 DEF ModelsInvariant

LEMMA ModelsStep == ModelsInvariant /\ [Next]_applicationVars => ModelsInvariant'
<1> SUFFICES ASSUME ModelsInvariant, [Next]_applicationVars
             PROVE  ModelsInvariant'
  OBVIOUS
<1>1. /\ part' = part
      /\ part = "tensors" => [TensorNext]_tensors
      /\ part = "layers" => [LayerNext]_layerVars
      /\ part = "modules" => [ModuleNext]_moduleVars
      /\ part = "calibration" => CalibrationNext \/ UNCHANGED calibrationVars
  BY DEF Next, PartOfTrust, PartOfDevices, PartOfModels, PartOfData, applicationVars,
         modelVars, quantizationVars
<1>2. CASE part = "tensors"
  <2>1. TensorInvariant'
    BY <1>1, <1>2, TensorStep DEF ModelsInvariant
  <2>2. QED
    BY <1>1, <1>2, <2>1 DEF ModelsInvariant
<1>3. CASE part = "layers"
  <2>1. LayerInvariant'
    BY <1>1, <1>3, LayerStep DEF ModelsInvariant
  <2>2. QED
    BY <1>1, <1>3, <2>1 DEF ModelsInvariant
<1>4. CASE part = "modules"
  <2>1. ModuleInvariant'
    BY <1>1, <1>4, ModuleStep DEF ModelsInvariant
  <2>2. QED
    BY <1>1, <1>4, <2>1 DEF ModelsInvariant
<1>5. CASE part = "calibration"
  <2>1. QuantizationInvariant'
    BY <1>1, <1>5, CalibrationStep DEF ModelsInvariant
  <2>2. QED
    BY <1>1, <1>5, <2>1 DEF ModelsInvariant
<1>6. CASE part \notin {"tensors", "layers", "modules", "calibration"}
  BY <1>1, <1>6 DEF ModelsInvariant
<1>7. QED
  BY <1>2, <1>3, <1>4, <1>5, <1>6

(* For any shapes, modules, batches and bits of an application's models: a tensor is what it
   was promised to be, within what stores it, layers that fit keep the rows, a module loads
   what it saved, and quantization represents what calibration has seen. *)
THEOREM ModelsStaySound == Spec => []ModelsHold
<1>1. ModelsInvariant => ModelsHold
  BY SoundMeans, RowsKept, RoundTripIs, ObservedIs DEF ModelsInvariant, ModelsHold
<1>2. QED
  BY <1>1, ModelsStart, ModelsStep, PTL DEF Spec
-----------------------------------------------------------------------------
\* A behaviour of an application that is about personal data.
DataInvariant == /\ part = "compliance" => ComplianceInvariant
                 /\ part \in {"sanitizer", "presidio"} => ScrubberInvariant

LEMMA DataStart == Init => DataInvariant
<1> SUFFICES ASSUME Init PROVE DataInvariant
  OBVIOUS
<1>1. ComplianceInit /\ ScrubberInit
  BY DEF Init, DataInit
<1>2. QED
  BY <1>1, ComplianceStart, ScrubberStart DEF DataInvariant

LEMMA DataStep == DataInvariant /\ [Next]_applicationVars => DataInvariant'
<1> SUFFICES ASSUME DataInvariant, [Next]_applicationVars
             PROVE  DataInvariant'
  OBVIOUS
<1>1. /\ part' = part
      /\ part = "compliance" => [ComplianceNext]_complianceVars
      /\ part \in {"sanitizer", "presidio"} => [ScrubberNext]_scrubberVars
  BY DEF Next, PartOfTrust, PartOfDevices, PartOfModels, PartOfData, applicationVars,
         dataVars, ScrubberNext
<1>2. CASE part = "compliance"
  <2>1. ComplianceInvariant'
    BY <1>1, <1>2, ComplianceStep DEF DataInvariant
  <2>2. QED
    BY <1>1, <1>2, <2>1 DEF DataInvariant
<1>3. CASE part \in {"sanitizer", "presidio"}
  <2>1. ScrubberInvariant'
    BY <1>1, <1>3, ScrubberStep DEF DataInvariant
  <2>2. QED
    BY <1>1, <1>3, <2>1 DEF DataInvariant
<1>4. CASE part \notin {"compliance", "sanitizer", "presidio"}
  BY <1>1, <1>4 DEF DataInvariant
<1>5. QED
  BY <1>2, <1>3, <1>4

(* For any data, agreements, texts and patterns of an application: who asks for more of a
   check fails no less, and scrubbing takes exactly what was found. *)
THEOREM DataStaysGuarded == Spec => []DataGuarded
<1>1. ComplianceInvariant => StricterFails
  BY StricterIs DEF ComplianceInvariant
<1>2. DataInvariant => DataGuarded
  BY <1>1 DEF DataInvariant, DataGuarded, ScrubberInvariant
<1>3. QED
  BY <1>2, DataStart, DataStep, PTL DEF Spec
-----------------------------------------------------------------------------
(* The shapes of the device side.  The lock of a device is its creator's, and streams that
   were taken twice are streams of the device. *)
DevicePoolTyped ==
  /\ initLock \in Users \cup {Nobody} /\ raced \subseteq DOMAIN inUse
  /\ \A u \in Users : initLock = u => At(u, "creates")

LEMMA DevicePoolTypeIs == ASSUME StreamsInvariant, DevicePoolTyped PROVE DevicePoolTypeOK
<1>1. ASSUME NEW u \in Users
      PROVE  ((initLock = u) <=> At(u, "creates")) /\ user[u].holds \subseteq DOMAIN inUse
  BY DEF StreamsInvariant, UserFits, DevicePoolTyped
<1> QED
  BY <1>1 DEF StreamsInvariant, DevicePoolTyped, DevicePoolTypeOK

LEMMA DevicePoolTypeStarts == ASSUME DevicePoolInit PROVE DevicePoolTyped
BY DevicePoolAssumption DEF DevicePoolInit, DevicePoolTyped

(* A thread moves that is not creating, before or after. *)
LEMMA LockStays ==
  ASSUME StreamsInvariant, DevicePoolTyped, NEW u \in Users, ~At(u, "creates"),
         \A v \in Users : v # u => user'[v] = user[v], initLock' = initLock,
         raced' \subseteq DOMAIN inUse'
  PROVE  DevicePoolTyped'
BY DEF DevicePoolTyped, At

LEMMA DevicePoolTypeSteps ==
  ASSUME StreamsInvariant, DevicePoolTyped, [DevicePoolNext]_devicePoolVars
  PROVE  DevicePoolTyped'
<1>1. CASE UNCHANGED devicePoolVars
  BY <1>1 DEF DevicePoolTyped, At, devicePoolVars
<1>2. inUse \in Seq(BOOLEAN) /\ raced \subseteq DOMAIN inUse /\ user = [u \in Users |-> user[u]]
  BY DEF StreamsInvariant, DevicePoolTyped
<1>3. ASSUME NEW u \in Users, NEW then \in {"idle", "scans"}, UseDevice(u, then)
      PROVE  DevicePoolTyped'
  <2>1. ~At(u, "creates") /\ initLock' = initLock /\ raced' = raced /\ inUse' = inUse
    BY <1>3 DEF UseDevice, At
  <2>2. \A v \in Users : v # u => user'[v] = user[v]
    BY <1>2, <1>3 DEF UseDevice
  <2> QED
    BY <1>2, <2>1, <2>2, LockStays
<1>4. ASSUME NEW u \in Users, InitializeLocks(u) PROVE DevicePoolTyped'
  <2>1. At(u, "waits") /\ initLock = Nobody /\ raced' = raced /\ inUse' = inUse
    BY <1>4 DEF InitializeLocks
  <2>2. CASE pools > 0
    <3>1. ~At(u, "creates") /\ initLock' = initLock
      BY <1>4, <2>1, <2>2 DEF InitializeLocks, At
    <3>2. \A v \in Users : v # u => user'[v] = user[v]
      BY <1>2, <1>4, <2>2 DEF InitializeLocks, Goes
    <3> QED
      BY <1>2, <2>1, <3>1, <3>2, LockStays
  <2>3. CASE ~(pools > 0)
    <3>1. initLock' = u /\ user' = [user EXCEPT ![u].at = "creates"]
      BY <1>4, <2>3 DEF InitializeLocks, Goes
    <3>2. user[u] \in User
      BY DEF StreamsInvariant, UserFits
    <3>3. user'[u].at = "creates"
      BY <1>2, <3>1, <3>2 DEF User
    <3> QED
      BY <1>2, <2>1, <3>1, <3>3 DEF DevicePoolTyped, At
  <2> QED
    BY <2>2, <2>3
<1>5. ASSUME NEW u \in Users, Initialize(u) PROVE DevicePoolTyped'
  <2>1. At(u, "creates") /\ initLock' = Nobody /\ raced' = raced
        /\ inUse' = inUse \o [i \in 1..Preallocated |-> FALSE]
    BY <1>5 DEF Initialize
  <2>2. pools = 0 /\ inUse = <<>>
    BY <2>1 DEF StreamsInvariant, UserFits, At
  <2>3. raced' \subseteq DOMAIN inUse'
    BY <1>2, <2>1, <2>2
  <2> QED
    BY <2>1, <2>3, DevicePoolAssumption DEF DevicePoolTyped
<1>6. ASSUME NEW u \in Users, ScanStream(u) PROVE DevicePoolTyped'
  <2>1. At(u, "scans") /\ UNCHANGED <<initLock, pools, raced>>
    BY <1>6 DEF ScanStream
  <2>2. ~At(u, "creates")
    BY <2>1 DEF At
  <2>3. \A v \in Users : v # u => user'[v] = user[v]
    BY <1>2, <1>6 DEF ScanStream
  <2>4. inUse' = Append(inUse, TRUE) \/ inUse' = inUse
    BY <1>6 DEF ScanStream
  <2>5. raced' \subseteq DOMAIN inUse'
    <3>1. DOMAIN inUse \subseteq DOMAIN Append(inUse, TRUE)
      <4>1. /\ Append(inUse, TRUE) \in Seq(BOOLEAN) /\ Len(Append(inUse, TRUE)) = Len(inUse) + 1
        BY <1>2, AppendProperties
      <4>2. DOMAIN inUse = 1..Len(inUse) /\ Len(inUse) \in Nat
            /\ DOMAIN Append(inUse, TRUE) = 1..(Len(inUse) + 1)
        BY <1>2, <4>1, LenProperties
      <4> QED
        BY <4>2
    <3> QED
      BY <1>2, <2>1, <2>4, <3>1
  <2> QED
    BY <2>1, <2>2, <2>3, <2>5, LockStays
<1>7. ASSUME NEW u \in Users, TakeStream(u) PROVE DevicePoolTyped'
  <2>1. At(u, "takes") /\ initLock' = initLock /\ inUse' = [inUse EXCEPT ![user[u].next] = TRUE]
        /\ (raced' = raced \/ raced' = raced \cup {user[u].next})
    BY <1>7 DEF TakeStream
  <2>2. ~At(u, "creates") /\ user[u].next \in DOMAIN inUse
    BY <2>1 DEF At, StreamsInvariant, UserFits
  <2>3. \A v \in Users : v # u => user'[v] = user[v]
    BY <1>2, <1>7 DEF TakeStream
  <2>4. DOMAIN inUse' = DOMAIN inUse
    BY <1>2, <2>1
  <2> QED
    BY <1>2, <2>1, <2>2, <2>3, <2>4, LockStays
<1>8. ASSUME NEW u \in Users, NEW s \in user[u].holds, ReturnStream(u, s) PROVE DevicePoolTyped'
  <2>1. At(u, "idle") /\ initLock' = initLock /\ inUse' = [inUse EXCEPT ![s] = FALSE] /\ raced' = raced
    BY <1>8 DEF ReturnStream
  <2>2. ~At(u, "creates") /\ DOMAIN inUse' = DOMAIN inUse
    BY <1>2, <2>1 DEF At
  <2>3. \A v \in Users : v # u => user'[v] = user[v]
    BY <1>2, <1>8 DEF ReturnStream
  <2> QED
    BY <1>2, <2>1, <2>2, <2>3, LockStays
<1> QED
  BY <1>1, <1>3, <1>4, <1>5, <1>6, <1>7, <1>8 DEF DevicePoolNext
-----------------------------------------------------------------------------
(* What the chain or an application has of a model is of a circuit that was built. *)
Standing == {"pending", "active", "deprecated"}
FromCircuit(m) == \E c \in circuits, s \in Standing : m = Registered(c, s)
RegistryTyped == \A m \in chain \cup models : FromCircuit(m)

LEMMA RegistryTypeIs == ASSUME RegistryTyped PROVE RegistryTypeOK
<1>1. ASSUME NEW m \in chain \cup models
      PROVE  m.status \in Standing /\ m.vkHash \in {Hash("bytes", c.vk) : c \in circuits}
  <2>1. PICK c \in circuits, s \in Standing : m = Registered(c, s)
    BY DEF RegistryTyped, FromCircuit
  <2>2. m.status = s /\ m.vkHash = Hash("bytes", c.vk)
    BY <2>1 DEF Registered
  <2> QED
    BY <2>2
<1> QED
  BY <1>1 DEF RegistryTypeOK, Standing

LEMMA FromCircuitStays ==
  ASSUME NEW m, FromCircuit(m), circuits \subseteq circuits' PROVE FromCircuit(m)'
BY DEF FromCircuit, Registered

LEMMA RegistryStays ==
  ASSUME RegistryTyped, circuits \subseteq circuits', UNCHANGED <<chain, models>>
  PROVE  RegistryTyped'
<1>1. \A m \in chain \cup models : FromCircuit(m)'
  BY FromCircuitStays DEF RegistryTyped
<1> QED
  BY <1>1 DEF RegistryTyped, FromCircuit

LEMMA StandingChanges ==
  ASSUME NEW m, NEW s \in Standing, FromCircuit(m) PROVE FromCircuit([m EXCEPT !.status = s])
<1>1. PICK c \in circuits, t \in Standing : m = Registered(c, t)
  BY DEF FromCircuit
<1>2. [m EXCEPT !.status = s] = Registered(c, s)
  BY <1>1 DEF Registered
<1> QED
  BY <1>2 DEF FromCircuit

LEMMA CircuitsGrow == ASSUME CircuitsNext PROVE circuits \subseteq circuits'
<1>1. PICK c : CircuitFits(c) /\ circuits' = circuits \cup {c}
  BY CircuitIsBuilt
<1> QED
  BY <1>1

LEMMA ProofsGrow == ASSUME [ProofNext]_proofVars PROVE circuits \subseteq circuits'
<1>1. CASE UNCHANGED proofVars
  BY <1>1 DEF proofVars
<1>2. CASE NextDate
  BY <1>2 DEF NextDate
<1>3. CASE Build
  BY <1>3, CircuitsGrow DEF Build
<1>4. ASSUME NEW f \in Files, NEW input \in Inputs, OwnCircuit(f, input)
      PROVE  circuits \subseteq circuits'
  BY <1>4 DEF OwnCircuit, Make
<1>5. ASSUME NEW f, NEW input, NEW a, NEW output, TEEProof(a, input, output, f)
      PROVE  circuits \subseteq circuits'
  BY <1>5 DEF TEEProof, AddProof
<1>6. ASSUME NEW c, NEW input, NEW output, NEW system, NEW a, Generate(c, input, output, system, a)
      PROVE  circuits \subseteq circuits'
  BY <1>6 DEF Generate, AddProof
<1>7. ASSUME NEW platform, NEW at, NEW output, Attest(platform, at, output)
      PROVE  circuits \subseteq circuits'
  BY <1>7 DEF Attest
<1> QED
  BY <1>1, <1>2, <1>3, <1>4, <1>5, <1>6, <1>7 DEF ProofNext

LEMMA RegistryStep == ASSUME RegistryTyped, RegistryNext PROVE RegistryTyped'
<1>1. CASE BuildForRegistry
  BY <1>1, CircuitsGrow, RegistryStays DEF BuildForRegistry
<1>2. ASSUME circuits' = circuits, \A m \in chain' \cup models' : FromCircuit(m) PROVE RegistryTyped'
  <2>1. ASSUME NEW m, FromCircuit(m) PROVE FromCircuit(m)'
    BY <1>2, <2>1, FromCircuitStays
  <2>2. \A m \in chain' \cup models' : FromCircuit(m)'
    BY <1>2, <2>1
  <2> QED
    BY <2>2 DEF RegistryTyped, FromCircuit
<1>3. ASSUME NEW c \in circuits, Register(c) PROVE RegistryTyped'
  <2>1. PICK s \in {"pending", "active"} : chain' = chain \cup {Registered(c, s)}
    BY <1>3 DEF Register
  <2>2. circuits' = circuits /\ models' = models \cup {Registered(c, "active")}
    BY <1>3 DEF Register
  <2>3. FromCircuit(Registered(c, s)) /\ FromCircuit(Registered(c, "active"))
    BY DEF FromCircuit, Standing
  <2>4. \A m \in chain' \cup models' : FromCircuit(m)
    BY <2>1, <2>2, <2>3 DEF RegistryTyped
  <2> QED
    BY <1>2, <2>2, <2>4
<1>4. ASSUME NEW m \in chain, GetModel(m) PROVE RegistryTyped'
  <2>1. circuits' = circuits /\ \A n \in chain' \cup models' : FromCircuit(n)
    BY <1>4 DEF GetModel, RegistryTyped
  <2> QED
    BY <1>2, <2>1
<1>5. ASSUME NEW m \in chain, NEW s \in Standing,
             chain' = (chain \ {m}) \cup {[m EXCEPT !.status = s]}, UNCHANGED <<circuits, models>>
      PROVE  RegistryTyped'
  <2>1. FromCircuit([m EXCEPT !.status = s])
    BY StandingChanges DEF RegistryTyped
  <2>2. \A n \in chain' \cup models' : FromCircuit(n)
    BY <1>5, <2>1 DEF RegistryTyped
  <2> QED
    BY <1>2, <1>5, <2>2
<1>6. ASSUME NEW m \in chain, Activate(m) PROVE RegistryTyped'
  <2>1. chain' = (chain \ {m}) \cup {[m EXCEPT !.status = "active"]} /\ UNCHANGED <<circuits, models>>
    BY <1>6 DEF Activate
  <2>2. "active" \in Standing
    BY DEF Standing
  <2> QED
    BY <1>5, <2>1, <2>2
<1>7. ASSUME NEW m \in chain, Deprecate(m) PROVE RegistryTyped'
  <2>1. chain' = (chain \ {m}) \cup {[m EXCEPT !.status = "deprecated"]} /\ UNCHANGED <<circuits, models>>
    BY <1>7 DEF Deprecate
  <2>2. "deprecated" \in Standing
    BY DEF Standing
  <2> QED
    BY <1>5, <2>1, <2>2
<1> QED
  BY <1>1, <1>3, <1>4, <1>6, <1>7 DEF RegistryNext
-----------------------------------------------------------------------------
(* A bucket counts its parameters, and one more. *)
DataParallelTyped ==
  /\ DOMAIN ready = DOMAIN buckets /\ DOMAIN bucketOf \in {{}, DOMAIN sizes}
  /\ \A b \in DOMAIN buckets : ready[b] \in Nat /\ ready[b] <= Len(buckets[b]) + 1

LEMMA DataParallelTypeIs == ASSUME DataParallelTyped PROVE DataParallelTypeOK
BY DEF DataParallelTyped, DataParallelTypeOK

LEMMA DataParallelTypeStarts == ASSUME DataParallelInit PROVE DataParallelTyped
<1>1. buckets = <<>> /\ ready = <<>> /\ bucketOf = <<>>
  BY DEF DataParallelInit
<1>2. DOMAIN buckets = {} /\ DOMAIN bucketOf = {} /\ DOMAIN ready = {}
  BY <1>1
<1> QED
  BY <1>2 DEF DataParallelTyped

LEMMA BucketsAreLists ==
  ASSUME DividedInvariant, NEW b \in DOMAIN buckets PROVE Len(buckets[b]) \in Nat
<1>1. CASE buckets = <<>>
  BY <1>1
<1>2. CASE buckets # <<>>
  <2>1. PICK n \in Nat : buckets \in Seq(Seq(1..n))
    BY <1>2 DEF DividedInvariant, BucketsDone, Bucketed
  <2>2. buckets[b] \in Seq(1..n)
    BY <2>1, ElementOfSeq, LenProperties
  <2> QED
    BY <2>2, LenProperties
<1> QED
  BY <1>1, <1>2

LEMMA DataParallelTypeSteps ==
  ASSUME DividedInvariant, DataParallelTyped, [DataParallelNext]_dataParallelVars
  PROVE  DataParallelTyped'
<1>1. CASE WrapDDP
  <2>1. DividedInvariant'
    BY <1>1, WrapDDPKeeps
  <2>2. \A b \in DOMAIN buckets' : Len(buckets'[b]) \in Nat
    <3>1. CASE buckets' = <<>>
      BY <3>1
    <3>2. CASE buckets' # <<>>
      <4>1. PICK n \in Nat : buckets' \in Seq(Seq(1..n))
        BY <2>1, <3>2 DEF DividedInvariant, BucketsDone, Bucketed
      <4>2. \A b \in DOMAIN buckets' : buckets'[b] \in Seq(1..n)
        BY <4>1, ElementOfSeq, LenProperties
      <4> QED
        BY <4>2, LenProperties
    <3> QED
      BY <3>1, <3>2
  <2>3. /\ ready' = [b \in DOMAIN buckets' |-> 0] /\ sizes' = sizes
        /\ DOMAIN bucketOf' = DOMAIN sizes
    BY <1>1 DEF WrapDDP
  <2>4. \A b \in DOMAIN buckets' : ready'[b] = 0 /\ 0 <= Len(buckets'[b]) + 1
    BY <2>2, <2>3
  <2> QED
    BY <2>3, <2>4 DEF DataParallelTyped
<1>2. CASE UNCHANGED <<sizes, buckets, bucketOf, ready>>
  BY <1>2 DEF DataParallelTyped
<1>3. CASE WrapZeRO \/ ZeROStep \/ UNCHANGED dataParallelVars
  BY <1>2, <1>3 DEF WrapZeRO, ZeROStep, dataParallelVars
<1>4. ASSUME NEW p \in DOMAIN sizes, MarkGradReady(p) PROVE DataParallelTyped'
  <2>1. PICK k : k = bucketOf[p]
    OBVIOUS
  <2>2. /\ ready[k] <= Len(buckets[k]) /\ ready' = [ready EXCEPT ![k] = @ + 1]
        /\ UNCHANGED <<sizes, buckets, bucketOf>>
    BY <1>4, <2>1 DEF MarkGradReady
  <2>3. DOMAIN ready' = DOMAIN buckets'
    BY <2>2 DEF DataParallelTyped
  <2>4. ASSUME NEW b \in DOMAIN buckets
        PROVE  ready'[b] \in Nat /\ ready'[b] <= Len(buckets[b]) + 1
    <3>1. ready[b] \in Nat /\ ready[b] <= Len(buckets[b]) + 1 /\ b \in DOMAIN ready
      BY DEF DataParallelTyped
    <3>2. Len(buckets[b]) \in Nat
      BY BucketsAreLists
    <3>3. CASE b = k
      <4>1. ready'[b] = ready[b] + 1 /\ ready[b] <= Len(buckets[b])
        BY <2>2, <3>1, <3>3
      <4> QED
        BY <3>1, <3>2, <4>1
    <3>4. CASE b # k
      BY <2>2, <3>1, <3>4
    <3> QED
      BY <3>3, <3>4
  <2> QED
    BY <2>2, <2>3, <2>4 DEF DataParallelTyped
<1> QED
  BY <1>1, <1>3, <1>4 DEF DataParallelNext
-----------------------------------------------------------------------------
(* What comes out of the last stage: a micro-batch, or what was never received. *)
Outcome == (1..microbatches) \cup {Blank}
PipelineTyped ==
  /\ waiting \in 0..MaxRequests /\ initialized \subseteq Stages
  /\ \A s \in Stages : pipe[s].outputs \in Seq(Outcome)

LEMMA PipelineTypeIs == ASSUME PipelineTyped PROVE PipelineTypeOK
<1>1. ASSUME NEW s \in Stages PROVE ToSet(pipe[s].outputs) \subseteq 1..microbatches \cup {Blank}
  <2>1. pipe[s].outputs \in Seq(Outcome)
    BY DEF PipelineTyped
  <2>2. \A i \in DOMAIN pipe[s].outputs : pipe[s].outputs[i] \in Outcome
    BY <2>1, ElementOfSeq, LenProperties
  <2> QED
    BY <2>2 DEF ToSet, Outcome
<1> QED
  BY <1>1 DEF PipelineTyped, PipelineTypeOK

LEMMA PipelineTypeStarts == ASSUME PipelineInit PROVE PipelineTyped
<1>1. waiting \in 0..MaxRequests
  BY PipelineAssumption DEF PipelineInit
<1>2. \A s \in Stages : pipe[s].outputs = <<>>
  BY DEF PipelineInit
<1>3. \A s \in Stages : pipe[s].outputs \in Seq(Outcome)
  <2>1. <<>> \in Seq(Outcome)
    OBVIOUS
  <2> QED
    BY <1>2, <2>1, Zenon
<1>4. initialized \subseteq Stages
  BY DEF PipelineInit
<1> QED
  BY <1>1, <1>3, <1>4 DEF PipelineTyped

LEMMA OutputsStay ==
  ASSUME PipelineTyped, waiting' \in 0..MaxRequests, initialized' \subseteq Stages,
         microbatches' = microbatches, \A s \in Stages : pipe'[s].outputs = pipe[s].outputs
  PROVE  PipelineTyped'
BY DEF PipelineTyped, Outcome

LEMMA DoingIsNoOutput ==
  ASSUME PipelineInvariant, NEW s \in Stages, NEW what, Does(s, what)
  PROVE  \A t \in Stages : pipe'[t].outputs = pipe[t].outputs
BY DEF Does, PipelineInvariant, StageState

LEMMA PipelineTypeSteps ==
  ASSUME PipelineInvariant, PipelineTyped, [PipelineNext]_pipelineVars
  PROVE  PipelineTyped'
<1>1. waiting \in 0..MaxRequests /\ initialized \subseteq Stages /\ MaxRequests \in Nat
  BY PipelineAssumption DEF PipelineTyped
<1>2. ASSUME NEW s \in Stages, InitializeGroup(s) \/ Destroy(s) PROVE PipelineTyped'
  BY <1>1, <1>2, OutputsStay DEF InitializeGroup, Destroy, Given
<1>3. ASSUME NEW s \in Stages, WaitForMessage(s) \/ \E alone \in BOOLEAN : WaitForCollective(s, alone)
      PROVE  PipelineTyped'
  <2>1. /\ waiting < MaxRequests /\ waiting' = waiting + 1 /\ pipe' = pipe /\ microbatches' = microbatches
        /\ initialized' \subseteq initialized \cup {s}
    BY <1>3 DEF WaitForMessage, WaitForCollective, Given
  <2>2. waiting' \in 0..MaxRequests
    BY <1>1, <2>1
  <2> QED
    BY <1>1, <2>1, <2>2, OutputsStay
<1>4. ASSUME NEW s \in Stages, Forward(s) \/ StageFails(s) \/ ForwardReturns(s) PROVE PipelineTyped'
  <2>1. /\ \E what : Does(s, what)
        /\ UNCHANGED <<waiting, initialized, microbatches>>
    BY <1>4 DEF Forward, StageFails, ForwardReturns, Given
  <2>2. \A t \in Stages : pipe'[t].outputs = pipe[t].outputs
    BY <2>1, DoingIsNoOutput
  <2> QED
    BY <1>1, <2>1, <2>2, OutputsStay
<1>5. ASSUME NEW s \in Stages, StageForward(s) PROVE PipelineTyped'
  <2>1. microbatches \in Nat /\ pipe[s] \in StageState /\ pipe \in [Stages -> StageState]
    BY PipelineAssumption DEF PipelineInvariant
  <2>2. PICK m : m = Order(s)[Round(s)]
    OBVIOUS
  <2>3. m \in 1..microbatches
    <3>1. Order(s) = GPipe
      BY <2>1, OrderIsStraight
    <3>2. Len(GPipe) = microbatches /\ \A i \in 1..microbatches : GPipe[i] = i
      BY <2>1 DEF GPipe
    <3>3. Len(pipe[s].log) \in Nat
      BY <2>1, LenProperties DEF StageState
    <3>4. Round(s) \in 1..microbatches
      BY <1>5, <3>1, <3>2, <3>3 DEF StageForward, Round
    <3> QED
      BY <2>2, <3>1, <3>2, <3>4
  <2>4. PICK y \in Outcome : y = IF s = 0 THEN m ELSE Blank
    <3>1. m \in Outcome /\ Blank \in Outcome
      BY <2>3 DEF Outcome
    <3> QED
      BY <3>1
  <2>5. /\ pipe' = [pipe EXCEPT ![s].log = Append(@, m),
                       ![s].outputs = IF s = NumStages - 1 THEN Append(@, y) ELSE @]
        /\ waiting' = waiting /\ microbatches' = microbatches
        /\ initialized' \subseteq initialized \cup {s}
    BY <1>5, <2>2, <2>4 DEF StageForward, Given
  <2>6. /\ pipe'[s].outputs = IF s = NumStages - 1 THEN Append(pipe[s].outputs, y) ELSE pipe[s].outputs
        /\ \A t \in Stages : t # s => pipe'[t] = pipe[t]
    <3>1. PICK p : p = pipe[s]
      OBVIOUS
    <3>2. PICK a, b, c : p = [at |-> a, log |-> b, outputs |-> c] /\ c = pipe[s].outputs
      BY <2>1, <3>1 DEF StageState
    <3>3. PICK out : out = IF s = NumStages - 1 THEN Append(c, y) ELSE c
      OBVIOUS
    <3>4. PICK l : l = Append(b, m)
      OBVIOUS
    <3>5. [p EXCEPT !.log = l, !.outputs = out] = [at |-> a, log |-> l, outputs |-> out]
      <4>1. PICK q : q = [at |-> a, log |-> l, outputs |-> c]
        OBVIOUS
      <4>2. [p EXCEPT !.log = l] = q /\ [q EXCEPT !.outputs = out] = [at |-> a, log |-> l, outputs |-> out]
        BY <3>2, <4>1
      <4> QED
        BY <4>2
    <3>6. pipe' = [pipe EXCEPT ![s] = [p EXCEPT !.log = l, !.outputs = out]]
      <4>1. p.log = b /\ p.outputs = c
        BY <3>2
      <4> QED
        BY <2>1, <2>5, <3>1, <3>3, <3>4, <4>1
    <3> QED
      BY <2>1, <3>2, <3>3, <3>5, <3>6
  <2>7. pipe[s].outputs \in Seq(Outcome)
    BY DEF PipelineTyped
  <2>8. pipe'[s].outputs \in Seq(Outcome)
    BY <2>4, <2>6, <2>7, AppendProperties
  <2>9. \A t \in Stages : pipe'[t].outputs \in Seq(Outcome)
    BY <2>6, <2>8 DEF PipelineTyped
  <2> QED
    BY <1>1, <2>5, <2>9 DEF PipelineTyped, Outcome
<1>6. CASE UNCHANGED pipelineVars
  BY <1>1, <1>6, OutputsStay DEF pipelineVars
<1> QED
  BY <1>2, <1>3, <1>4, <1>5, <1>6 DEF PipelineNext
-----------------------------------------------------------------------------
(* A scheduler's epoch is one that it was stepped to or loaded. *)
Epochs == (-1)..MaxEpoch
SchedulerFits(s) == s.epoch \in Epochs /\ (s.cur <= MaxEpoch \/ s.cur < s.length)
ScheduleTyped ==
  /\ scheduler # NoScheduler => SchedulerFits(scheduler)
  /\ saved # NoScheduler => saved.epoch \in Epochs

LEMMA ScheduleTypeIs == ASSUME ScheduleInvariant, ScheduleTyped PROVE ScheduleTypeOK
<1>1. world \in WorldSizes /\ trainer \in WorldSizes /\ set.world \in WorldSizes /\ lr \in Int
  BY DEF ScheduleInvariant
<1> QED
  BY <1>1 DEF ScheduleTyped, SchedulerFits, Epochs, ScheduleTypeOK

LEMMA ScheduleTypeStarts == ASSUME ScheduleInit PROVE ScheduleTyped
BY DEF ScheduleInit, ScheduleTyped

(* The step that a scheduler takes by itself. *)
LEMMA StepFits ==
  ASSUME NEW s \in SchedulerState, SchedulerFits(s),
         NEW t, t = [Restarted(s) EXCEPT !.epoch = @ + 1], t.epoch <= MaxEpoch
  PROVE  SchedulerFits(t)
<1>1. /\ s.epoch \in Int /\ s.cur \in Int /\ s.length \in Nat \ {0} /\ MaxEpoch \in Nat
      /\ s.epoch >= -1
  BY ScheduleAssumption DEF SchedulerState, SchedulerFits, Epochs
<1>2. PICK a, e, b, c, n : s = [kind |-> a, epoch |-> e, base |-> b, cur |-> c, length |-> n]
  BY DEF SchedulerState
<1>3. e = s.epoch /\ c = s.cur /\ n = s.length
  BY <1>2
<1>4. CASE a # "restarts"
  <2>1. t = [kind |-> a, epoch |-> e + 1, base |-> b, cur |-> c, length |-> n]
    BY <1>2, <1>4 DEF Restarted
  <2> QED
    BY <1>1, <1>3, <2>1 DEF SchedulerFits, Epochs
<1>5. CASE a = "restarts" /\ c + 1 < n
  <2>1. t = [kind |-> a, epoch |-> e + 1, base |-> b, cur |-> c + 1, length |-> n]
    BY <1>2, <1>5 DEF Restarted
  <2> QED
    BY <1>1, <1>3, <1>5, <2>1 DEF SchedulerFits, Epochs
<1>6. CASE a = "restarts" /\ ~(c + 1 < n)
  <2>1. t = [kind |-> a, epoch |-> e + 1, base |-> b, cur |-> 0, length |-> n * 2]
    BY <1>2, <1>6 DEF Restarted
  <2> QED
    BY <1>1, <1>3, <2>1 DEF SchedulerFits, Epochs
<1> QED
  BY <1>4, <1>5, <1>6

LEMMA SteppedFits ==
  ASSUME ScheduleTyped, NEW s, Stepped(s), SchedulerFits(s) PROVE ScheduleTyped'
BY DEF ScheduleTyped, SchedulerFits, Stepped

LEMMA ScheduleTypeSteps ==
  ASSUME ScheduleInvariant, ScheduleTyped, [ScheduleNext]_scheduleVars
  PROVE  ScheduleTyped'
<1>1. CASE SchedulerStep
  <2>1. scheduler \in SchedulerState /\ SchedulerFits(scheduler)
    BY <1>1 DEF SchedulerStep, ScheduleInvariant, ScheduleTyped
  <2>2. PICK s : s = [Restarted(scheduler) EXCEPT !.epoch = @ + 1]
    OBVIOUS
  <2>3. Stepped(s) /\ s.epoch <= MaxEpoch
    BY <1>1, <2>2 DEF SchedulerStep, Stepped
  <2> QED
    BY <2>1, <2>2, <2>3, StepFits, SteppedFits
<1>2. ASSUME NEW epoch \in 0..MaxEpoch, SchedulerStepTo(epoch) PROVE ScheduleTyped'
  <2>1. scheduler \in SchedulerState /\ SchedulerFits(scheduler) /\ epoch \in Int /\ epoch \in Epochs
        /\ epoch <= MaxEpoch
    BY <1>2, ScheduleAssumption DEF SchedulerStepTo, ScheduleInvariant, ScheduleTyped, Epochs
  <2>2. PICK a, e, b, c, n : scheduler = [kind |-> a, epoch |-> e, base |-> b, cur |-> c, length |-> n]
    BY <2>1 DEF SchedulerState
  <2>3. PICK s : s = [scheduler EXCEPT !.epoch = epoch,
                        !.cur = IF scheduler.kind = "restarts" THEN epoch ELSE @]
    OBVIOUS
  <2>4. s = [kind |-> a, epoch |-> epoch, base |-> b,
             cur |-> IF a = "restarts" THEN epoch ELSE c, length |-> n]
    BY <2>2, <2>3
  <2>5. SchedulerFits(s)
    BY <2>1, <2>2, <2>4 DEF SchedulerFits
  <2>6. Stepped(s)
    BY <1>2, <2>3 DEF SchedulerStepTo
  <2> QED
    BY <2>5, <2>6, SteppedFits
<1>3. ASSUME NEW k \in Kinds, NEW last \in {-1, 0}, NewScheduler(k, last)
      PROVE  ScheduleTyped'
  <2>1. PICK s : s = [kind |-> k, epoch |-> last, base |-> lr, cur |-> last, length |-> 2]
    OBVIOUS
  <2>2. s \in SchedulerState /\ SchedulerFits(s)
    BY <2>1, ScheduleAssumption DEF ScheduleInvariant, SchedulerState, SchedulerFits, Epochs
  <2>3. CASE last # -1
    <3>1. PICK t : t = [Restarted(s) EXCEPT !.epoch = @ + 1]
      OBVIOUS
    <3>2. Stepped(t) /\ t.epoch <= MaxEpoch
      BY <1>3, <2>1, <2>3, <3>1 DEF NewScheduler, Stepped
    <3> QED
      BY <2>2, <3>1, <3>2, StepFits, SteppedFits
  <2>4. CASE last = -1
    <3>1. scheduler' = s /\ saved' = saved
      BY <1>3, <2>1, <2>4 DEF NewScheduler
    <3> QED
      BY <2>2, <3>1 DEF ScheduleTyped, SchedulerFits
  <2> QED
    BY <2>3, <2>4
<1>4. CASE SchedulerStateDict
  <2>1. /\ saved' = [lr |-> lr, epoch |-> scheduler.epoch] /\ scheduler' = scheduler
        /\ SchedulerFits(scheduler)
    BY <1>4 DEF SchedulerStateDict, ScheduleTyped
  <2> QED
    BY <2>1 DEF ScheduleTyped, SchedulerFits
<1>5. CASE LoadScheduler
  <2>1. /\ scheduler \in SchedulerState /\ SchedulerFits(scheduler) /\ saved.epoch \in Epochs
        /\ saved' = saved /\ scheduler' = [scheduler EXCEPT !.epoch = saved.epoch]
    BY <1>5 DEF LoadScheduler, ScheduleInvariant, ScheduleTyped
  <2>2. scheduler'.epoch = saved.epoch /\ scheduler'.cur = scheduler.cur
        /\ scheduler'.length = scheduler.length
    BY <2>1 DEF SchedulerState
  <2> QED
    BY <2>1, <2>2 DEF ScheduleTyped, SchedulerFits
<1>6. CASE NewOptimizer \/ Restart
  <2>1. scheduler' = NoScheduler /\ saved' = saved
    BY <1>6 DEF NewOptimizer, Restart
  <2> QED
    BY <2>1 DEF ScheduleTyped
<1>7. CASE LoadOptimizer \/ HandleWorkerChange \/ UNCHANGED scheduleVars
  <2>1. scheduler' = scheduler /\ saved' = saved
    BY <1>7 DEF LoadOptimizer, HandleWorkerChange, scheduleVars
  <2> QED
    BY <2>1 DEF ScheduleTyped, SchedulerFits
<1>8. ASSUME NEW n \in WorldSizes, Resize(n) PROVE ScheduleTyped'
  <2>1. scheduler' = scheduler /\ saved' = saved
    BY <1>8 DEF Resize
  <2> QED
    BY <2>1 DEF ScheduleTyped, SchedulerFits
<1> QED
  BY <1>1, <1>2, <1>3, <1>4, <1>5, <1>6, <1>7, <1>8 DEF ScheduleNext
-----------------------------------------------------------------------------
(* An optimizer has parameters of a move that has been, and without momentum no state. *)
Stateless(st) == \A g \in Groups : st[g] = NoState
OptimizerTyped ==
  /\ moves \in 0..MaxMoves /\ Len(states) <= MaxStates
  /\ \A o \in Optimizers : optimizer[o].move \in 0..moves
  /\ kind = "sgd" => /\ \A o \in Optimizers : Stateless(optimizer[o].state)
                     /\ dict # NoState => Stateless(dict)

LEMMA OptimizerTypeIs == ASSUME OptimizerTyped PROVE OptimizerTypeOK
BY DEF OptimizerTyped, Stateless, OptimizerTypeOK

LEMMA OptimizerTypeStarts == ASSUME OptimizerInit PROVE OptimizerTyped
<1>1. moves = 0 /\ states = <<>> /\ dict = NoState
      /\ \A o \in Optimizers : optimizer[o].move = 0 /\ Stateless(optimizer[o].state)
  BY DEF OptimizerInit, Stateless
<1>2. 0 \in 0..MaxMoves /\ 0 \in 0..0 /\ Len(states) <= MaxStates
  BY <1>1, OptimizerAssumption
<1> QED
  BY <1>1, <1>2 DEF OptimizerTyped

(* One optimizer gets parameters of a move that has been, or other states. *)
LEMMA OptimizerReplaced ==
  ASSUME OptimizerInvariant, OptimizerTyped, NEW o \in Optimizers,
         NEW r \in [move : Nat, state : StateMap], optimizer' = [optimizer EXCEPT ![o] = r],
         r.move \in 0..moves, kind = "sgd" => Stateless(r.state),
         UNCHANGED <<kind, moves, dict>>, Len(states') <= MaxStates
  PROVE  OptimizerTyped'
<1>1. optimizer'[o] = r /\ \A p \in Optimizers : p # o => optimizer'[p] = optimizer[p]
  BY DEF OptimizerInvariant
<1>2. \A p \in Optimizers : /\ optimizer'[p].move \in 0..moves
                            /\ kind = "sgd" => Stateless(optimizer'[p].state)
  BY <1>1 DEF OptimizerTyped
<1> QED
  BY <1>2 DEF OptimizerTyped, Stateless

LEMMA OptimizersUntouched ==
  ASSUME OptimizerTyped, UNCHANGED <<kind, moves, states, optimizer>>,
         kind = "sgd" /\ dict' # NoState => Stateless(dict')
  PROVE  OptimizerTyped'
BY DEF OptimizerTyped, Stateless

(* Plain SGD leaves the states alone. *)
LEMMA RunsWithout ==
  ASSUME kind = "sgd", NEW o, NEW basis PROVE Run(o, basis) = basis
<1>1. basis \in {basis} /\ \A k \in 1..GroupCount, a \in {basis} : StepOne(o, a, k) \in {basis}
  BY DEF StepOne
<1>2. Run(o, basis) \in {basis}
  BY <1>1, RunReaches
<1> QED
  BY <1>2

LEMMA OptimizerTypeSteps ==
  ASSUME OptimizerInvariant, OptimizerTyped, [OptimizerNext]_optimizerVars
  PROVE  OptimizerTyped'
<1>1. /\ moves \in Nat /\ moves <= MaxMoves /\ MaxMoves \in Nat /\ MaxStates \in Nat
      /\ \A o \in Optimizers : optimizer[o] \in [move : Nat, state : StateMap]
  BY OptimizerAssumption DEF OptimizerInvariant, OptimizerTyped
<1>2. CASE Apply
  <2>1. moves' = moves + 1 /\ moves < MaxMoves /\ UNCHANGED <<kind, states, optimizer, dict>>
    BY <1>2 DEF Apply
  <2>2. moves' \in 0..MaxMoves
    BY <1>1, <2>1
  <2>3. ASSUME NEW o \in Optimizers PROVE optimizer[o].move \in 0..moves'
    <3>1. optimizer[o].move \in 0..moves
      BY DEF OptimizerTyped
    <3> QED
      BY <1>1, <2>1, <3>1
  <2> QED
    BY <2>1, <2>2, <2>3 DEF OptimizerTyped, Stateless
<1>3. ASSUME UNCHANGED <<kind, moves, states, optimizer, dict>> PROVE OptimizerTyped'
  BY <1>3 DEF OptimizerTyped, Stateless
<1>4. ASSUME NEW used \in SUBSET Groups, Backward(used) PROVE OptimizerTyped'
  BY <1>3, <1>4 DEF Backward
<1>5. ASSUME NEW rank \in {0, 1}, SaveCheckpoint(rank) PROVE OptimizerTyped'
  BY <1>3, <1>5 DEF SaveCheckpoint
<1>6. ASSUME NEW o \in Optimizers, MakeOptimizer(o) PROVE OptimizerTyped'
  <2>1. PICK r \in [move : Nat, state : StateMap] :
          r = [move |-> moves, state |-> [g \in Groups |-> NoState]]
    BY <1>1 DEF StateMap
  <2>2. r.move \in 0..moves /\ Stateless(r.state)
    BY <1>1, <2>1 DEF Stateless
  <2>3. optimizer' = [optimizer EXCEPT ![o] = r] /\ UNCHANGED <<kind, moves, dict, states>>
    BY <1>6, <2>1 DEF MakeOptimizer
  <2>4. Len(states') <= MaxStates
    BY <2>3 DEF OptimizerTyped
  <2> QED
    BY <2>2, <2>3, <2>4, OptimizerReplaced
<1>7. ASSUME NEW o \in Optimizers, Step(o) PROVE OptimizerTyped'
  <2>1. PICK basis : basis = [state |-> optimizer[o].state, states |-> states]
    OBVIOUS
  <2>2. PICK end : end = Run(o, basis)
    OBVIOUS
  <2>3. /\ Len(end.states) <= MaxStates /\ states' = end.states
        /\ optimizer' = [optimizer EXCEPT ![o].state = end.state] /\ UNCHANGED <<kind, moves, dict>>
    BY <1>7, <2>1, <2>2 DEF Step, Run
  <2>4. kind = "sgd" => end.state = optimizer[o].state
    BY <2>1, <2>2, RunsWithout
  <2>5. kind = "sgd" => Stateless(end.state)
    BY <2>4 DEF OptimizerTyped
  <2>6. OptimizerInvariant'
    BY <1>7, StepKeeps
  <2>7. /\ optimizer'[o].move = optimizer[o].move /\ optimizer'[o].state = end.state
        /\ \A p \in Optimizers : p # o => optimizer'[p] = optimizer[p]
    BY <1>1, <2>3 DEF OptimizerInvariant
  <2>8. \A p \in Optimizers : /\ optimizer'[p].move \in 0..moves
                              /\ kind = "sgd" => Stateless(optimizer'[p].state)
    BY <2>5, <2>7 DEF OptimizerTyped
  <2> QED
    BY <2>3, <2>8 DEF OptimizerTyped, Stateless
<1>8. ASSUME NEW o \in Optimizers, OptimizerStateDict(o) PROVE OptimizerTyped'
  <2>1. dict' = optimizer[o].state /\ UNCHANGED <<kind, moves, states, optimizer>>
    BY <1>8 DEF OptimizerStateDict
  <2>2. kind = "sgd" => Stateless(dict')
    BY <2>1 DEF OptimizerTyped
  <2> QED
    BY <2>1, <2>2, OptimizersUntouched
<1>9. ASSUME NEW o \in Optimizers, LoadOptimizerState(o) PROVE OptimizerTyped'
  <2>1. dict \in StateMap /\ optimizer[o] \in [move : Nat, state : StateMap]
    BY <1>1, <1>9 DEF LoadOptimizerState, OptimizerInvariant
  <2>2. PICK st \in StateMap :
          st = [g \in Groups |-> IF dict[g] = NoState THEN optimizer[o].state[g] ELSE dict[g]]
    BY <1>1, <2>1 DEF StateMap
  <2>3. kind = "sgd" => Stateless(st)
    BY <1>9, <2>2 DEF LoadOptimizerState, OptimizerTyped, Stateless
  <2>4. PICK r \in [move : Nat, state : StateMap] :
          r = [move |-> optimizer[o].move, state |-> st]
    BY <2>1
  <2>7. UNCHANGED <<kind, moves, dict, states>>
    BY <1>9 DEF LoadOptimizerState
  <2>8. optimizer' = [optimizer EXCEPT ![o].state = st]
    BY <1>9, <2>1, <2>2 DEF LoadOptimizerState
  <2>9. [optimizer[o] EXCEPT !.state = st] = r
    BY <2>1, <2>4
  <2>5. optimizer' = [optimizer EXCEPT ![o] = r]
    BY <2>1, <2>8, <2>9
  <2>6. r.move \in 0..moves /\ Len(states') <= MaxStates
    BY <2>4, <2>7 DEF OptimizerTyped
  <2> QED
    BY <2>3, <2>4, <2>5, <2>6, <2>7, OptimizerReplaced
<1>10. ASSUME NEW o \in Optimizers, NEW to_none \in BOOLEAN, ZeroGrad(o, to_none)
       PROVE  OptimizerTyped'
  BY <1>3, <1>10 DEF ZeroGrad
<1>11. CASE UNCHANGED optimizerVars
  BY <1>3, <1>11 DEF optimizerVars
<1> QED
  BY <1>2, <1>4, <1>5, <1>6, <1>7, <1>8, <1>9, <1>10, <1>11 DEF OptimizerNext
-----------------------------------------------------------------------------
(* The shapes of an application: those of the part that its behaviour is of. *)
TrustShape ==
  /\ part = "wallet" => KeysInvariant /\ WalletTyped
  /\ part = "provenance" => GroundsInvariant /\ ProvenanceTyped
  /\ part \in {"circuits", "proofs", "registry"} => VerdictInvariant /\ RegistryTyped
  /\ part \in {"middleware", "wrapper"} => WebFits(web) /\ CallsFit

DeviceShape ==
  /\ part = "pool" => StreamsInvariant /\ DevicePoolTyped
  /\ part = "device" => ContextInvariant
  /\ part = "parallel" => DividedInvariant /\ DataParallelTyped
  /\ part = "pipeline" => PipelineInvariant /\ PipelineTyped
  /\ part = "schedule" => ScheduleInvariant /\ ScheduleTyped

ModelShape ==
  /\ part = "tensors" => TensorInvariant
  /\ part = "layers" => LayerTyped
  /\ part = "modules" => ModuleInvariant
  /\ part = "optimizer" => OptimizerInvariant /\ OptimizerTyped
  /\ part \in {"calibration", "conversion"} => QuantizationInvariant /\ ConversionTyped

DataShape ==
  /\ part = "compliance" => ComplianceInvariant /\ FrameworksTyped
  /\ part \in {"sanitizer", "presidio"} => ScrubberInvariant /\ ScrubberTyped

PartsTyped == TrustShape /\ DeviceShape /\ ModelShape /\ DataShape

LEMMA PartsAreTyped == PartsTyped => ApplicationsTypeOK
<1> SUFFICES ASSUME PartsTyped PROVE ApplicationsTypeOK
  OBVIOUS
<1>1. /\ part = "wallet" => WalletTypeOK
      /\ part = "provenance" => ProvenanceTypeOK
      /\ part \in {"circuits", "proofs", "registry"} => CircuitsTypeOK /\ ProofTypeOK /\ RegistryTypeOK
      /\ part \in {"middleware", "wrapper"} => IntegrationTypeOK
  BY WalletTypeIs, ProvenanceTypeIs, ProofTypeIs, RegistryTypeIs, IntegrationTypeIs
     DEF PartsTyped, TrustShape
<1>2. /\ part = "pool" => DevicePoolTypeOK
      /\ part = "device" => CurrentDeviceTypeOK
      /\ part = "parallel" => DataParallelTypeOK
      /\ part = "pipeline" => PipelineTypeOK
      /\ part = "schedule" => ScheduleTypeOK
  BY DevicePoolTypeIs, DevicesAreTyped, DataParallelTypeIs, PipelineTypeIs, ScheduleTypeIs
     DEF PartsTyped, DeviceShape
<1>3. /\ part = "tensors" => TensorTypeOK
      /\ part = "layers" => LayerTypeOK
      /\ part = "modules" => ModuleTypeOK
      /\ part = "optimizer" => OptimizerTypeOK
  BY SoundMeans, LayerTypeIs, OptimizerTypeIs DEF PartsTyped, ModelShape, ModuleInvariant
<1>4. part \in {"calibration", "conversion"} => QuantizationTypeOK
  BY DEF PartsTyped, ModelShape, QuantizationInvariant, ConversionTyped, QuantizationTypeOK
<1>5. /\ part = "compliance" => ComplianceTypeOK
      /\ part \in {"sanitizer", "presidio"} => ScrubberTypeOK
  BY ComplianceTypeIs, ScrubberTypeIs DEF PartsTyped, DataShape
<1> QED
  BY <1>1, <1>2, <1>3, <1>4, <1>5 DEF ApplicationsTypeOK

LEMMA PartsStartTyped == Init => PartsTyped
<1> SUFFICES ASSUME Init PROVE PartsTyped
  OBVIOUS
<1>1. TrustShape
  <2>1. /\ WalletInit /\ ProvenanceInit /\ ProofInit /\ IntegrationInit
        /\ chain = {} /\ models = {}
    BY DEF Init, TrustInit
  <2>2. RegistryTyped
    BY <2>1 DEF RegistryTyped
  <2>3. /\ KeysInvariant /\ WalletTyped /\ GroundsInvariant /\ ProvenanceTyped /\ VerdictInvariant
        /\ WebFits(web) /\ CallsFit
    BY <2>1, KeysStart, WalletTypeStarts, GroundsStart, ProvenanceTypeStarts, VerdictStart,
       WebStarts, CallsStart
  <2> QED
    BY <2>2, <2>3 DEF TrustShape
<1>2. DeviceShape
  <2>1. DevicePoolInit /\ CurrentDeviceInit /\ DataParallelInit /\ PipelineInit /\ ScheduleInit
    BY DEF Init, DeviceInit
  <2> QED
    BY <2>1, StreamsStart, DevicePoolTypeStarts, ContextsStart, DataParallelStarts,
       DataParallelTypeStarts, PipelineStarts, PipelineTypeStarts, ScheduleStarts, ScheduleTypeStarts
       DEF DeviceShape
<1>3. ModelShape
  <2>1. TensorInit /\ LayerInit /\ ModuleInit /\ OptimizerInit /\ CalibrationInit /\ ConversionInit
    BY DEF Init, ModelInit
  <2> QED
    BY <2>1, TensorsStart, LayerTypeStarts, ModuleStart, OptimizerStarts, OptimizerTypeStarts,
       QuantizationStart, ConversionTypeStarts DEF ModelShape
<1>4. DataShape
  <2>1. ComplianceInit /\ ScrubberInit
    BY DEF Init, DataInit
  <2> QED
    BY <2>1, ComplianceStart, FrameworksStart, ScrubberStart, ScrubberTypeStarts DEF DataShape
<1> QED
  BY <1>1, <1>2, <1>3, <1>4 DEF PartsTyped

(* What the registry does to circuits a proof may find done. *)
LEMMA RegistryBuilds ==
  ASSUME RegistryNext, UNCHANGED <<date, production, attestations, proofs>>
  PROVE  [ProofNext]_proofVars
<1>1. CASE BuildForRegistry
  BY <1>1 DEF BuildForRegistry, ProofNext, Build
<1>2. CASE circuits' = circuits
  BY <1>2 DEF proofVars
<1>3. ASSUME NEW c \in circuits, Register(c) PROVE circuits' = circuits
  BY <1>3 DEF Register
<1>4. ASSUME NEW m \in chain, Activate(m) \/ GetModel(m) \/ Deprecate(m) PROVE circuits' = circuits
  BY <1>4 DEF Activate, GetModel, Deprecate
<1> QED
  BY <1>1, <1>2, <1>3, <1>4 DEF RegistryNext

LEMMA TrustKeepsShape == TrustShape /\ [Next]_applicationVars => TrustShape'
<1> SUFFICES ASSUME TrustShape, [Next]_applicationVars PROVE TrustShape'
  OBVIOUS
<1>1. /\ part' = part
      /\ part = "wallet" => [WalletNext]_walletVars
      /\ part = "provenance" => [ProvenanceNext]_provenanceVars
      /\ part \in {"middleware", "wrapper"} => [IntegrationNext]_integrationVars
  BY DEF Next, PartOfTrust, PartOfDevices, PartOfModels, PartOfData, applicationVars, trustVars,
         IntegrationNext
<1>2. /\ part = "circuits" =>
           \/ CircuitsNext /\ UNCHANGED <<date, production, attestations, proofs, chain, models>>
           \/ UNCHANGED <<proofVars, chain, models>>
      /\ part = "proofs" => [ProofNext]_proofVars /\ UNCHANGED <<chain, models>>
      /\ part = "registry" => \/ RegistryNext /\ UNCHANGED <<date, production, attestations, proofs>>
                              \/ UNCHANGED <<proofVars, chain, models>>
  BY DEF Next, PartOfTrust, PartOfDevices, PartOfModels, PartOfData, applicationVars, trustVars,
         proofVars
<1>3. CASE part = "wallet"
  <2>1. KeysInvariant' /\ WalletTyped'
    BY <1>1, <1>3, KeysStay, WalletTypeSteps DEF TrustShape
  <2> QED
    BY <1>1, <1>3, <2>1 DEF TrustShape
<1>4. CASE part = "provenance"
  <2>1. GroundsInvariant' /\ ProvenanceTyped'
    BY <1>1, <1>4, GroundsStay, ProvenanceTypeSteps DEF TrustShape
  <2> QED
    BY <1>1, <1>4, <2>1 DEF TrustShape
<1>5. CASE part \in {"circuits", "proofs", "registry"}
  <2>1. VerdictInvariant /\ RegistryTyped
    BY <1>5 DEF TrustShape
  <2>2. [ProofNext]_proofVars
    <3>1. CASE part = "circuits"
      BY <1>2, <3>1 DEF ProofNext, Build
    <3>2. CASE part = "registry"
      BY <1>2, <3>2, RegistryBuilds
    <3> QED
      BY <1>2, <1>5, <3>1, <3>2
  <2>3. RegistryTyped'
    <3>1. CASE part \in {"circuits", "proofs"}
      BY <1>2, <2>1, <2>2, <3>1, ProofsGrow, RegistryStays
    <3>2. CASE part = "registry"
      BY <1>2, <2>1, <2>2, <3>2, ProofsGrow, RegistryStays, RegistryStep
    <3> QED
      BY <1>5, <3>1, <3>2
  <2>4. VerdictInvariant'
    BY <2>1, <2>2, VerdictStep
  <2> QED
    BY <1>1, <1>5, <2>3, <2>4 DEF TrustShape
<1>6. CASE part \in {"middleware", "wrapper"}
  <2>1. WebFits(web') /\ CallsFit'
    BY <1>1, <1>6, WebKept, CallsKept DEF TrustShape
  <2> QED
    BY <1>1, <1>6, <2>1 DEF TrustShape
<1>7. CASE part \notin {"wallet", "provenance", "circuits", "proofs", "registry", "middleware", "wrapper"}
  BY <1>1, <1>7 DEF TrustShape
<1> QED
  BY <1>3, <1>4, <1>5, <1>6, <1>7

LEMMA DevicesKeepShape == DeviceShape /\ [Next]_applicationVars => DeviceShape'
<1> SUFFICES ASSUME DeviceShape, [Next]_applicationVars PROVE DeviceShape'
  OBVIOUS
<1>1. /\ part' = part
      /\ part = "pool" => [DevicePoolNext]_devicePoolVars
      /\ part = "device" => [CurrentDeviceNext]_deviceVars
      /\ part = "parallel" => [DataParallelNext]_dataParallelVars
      /\ part = "pipeline" => [PipelineNext]_pipelineVars
      /\ part = "schedule" => [ScheduleNext]_scheduleVars
  BY DEF Next, PartOfTrust, PartOfDevices, PartOfModels, PartOfData, applicationVars,
         deviceSideVars
<1>2. CASE part = "pool"
  <2>1. StreamsInvariant' /\ DevicePoolTyped'
    BY <1>1, <1>2, StreamsStep, DevicePoolTypeSteps DEF DeviceShape
  <2> QED
    BY <1>1, <1>2, <2>1 DEF DeviceShape
<1>3. CASE part = "device"
  <2>1. ContextInvariant'
    BY <1>1, <1>3, ContextsStep DEF DeviceShape
  <2> QED
    BY <1>1, <1>3, <2>1 DEF DeviceShape
<1>4. CASE part = "parallel"
  <2>1. DividedInvariant' /\ DataParallelTyped'
    BY <1>1, <1>4, DataParallelStep, DataParallelTypeSteps DEF DeviceShape
  <2> QED
    BY <1>1, <1>4, <2>1 DEF DeviceShape
<1>5. CASE part = "pipeline"
  <2>1. PipelineInvariant' /\ PipelineTyped'
    BY <1>1, <1>5, PipelineStep, PipelineTypeSteps DEF DeviceShape
  <2> QED
    BY <1>1, <1>5, <2>1 DEF DeviceShape
<1>6. CASE part = "schedule"
  <2>1. ScheduleInvariant' /\ ScheduleTyped'
    BY <1>1, <1>6, ScheduleStep, ScheduleTypeSteps DEF DeviceShape
  <2> QED
    BY <1>1, <1>6, <2>1 DEF DeviceShape
<1>7. CASE part \notin {"pool", "device", "parallel", "pipeline", "schedule"}
  BY <1>1, <1>7 DEF DeviceShape
<1> QED
  BY <1>2, <1>3, <1>4, <1>5, <1>6, <1>7

LEMMA ModelsKeepShape == ModelShape /\ [Next]_applicationVars => ModelShape'
<1> SUFFICES ASSUME ModelShape, [Next]_applicationVars PROVE ModelShape'
  OBVIOUS
<1>1. /\ part' = part
      /\ part = "tensors" => [TensorNext]_tensors
      /\ part = "layers" => [LayerNext]_layerVars
      /\ part = "modules" => [ModuleNext]_moduleVars
      /\ part = "optimizer" => [OptimizerNext]_optimizerVars
  BY DEF Next, PartOfTrust, PartOfDevices, PartOfModels, PartOfData, applicationVars, modelVars
<1>2. part \in {"calibration", "conversion"} =>
        CalibrationNext \/ ConversionNext \/ UNCHANGED <<calibrationVars, conversionVars>>
  BY DEF Next, PartOfTrust, PartOfDevices, PartOfModels, PartOfData, applicationVars, modelVars,
         quantizationVars
<1>3. CASE part = "tensors"
  <2>1. TensorInvariant'
    BY <1>1, <1>3, TensorStep DEF ModelShape
  <2> QED
    BY <1>1, <1>3, <2>1 DEF ModelShape
<1>4. CASE part = "layers"
  <2>1. LayerTyped'
    BY <1>1, <1>4, LayerTypeSteps DEF ModelShape
  <2> QED
    BY <1>1, <1>4, <2>1 DEF ModelShape
<1>5. CASE part = "modules"
  <2>1. ModuleInvariant'
    BY <1>1, <1>5, ModuleStep DEF ModelShape
  <2> QED
    BY <1>1, <1>5, <2>1 DEF ModelShape
<1>6. CASE part = "optimizer"
  <2>1. OptimizerInvariant' /\ OptimizerTyped'
    BY <1>1, <1>6, OptimizerStep, OptimizerTypeSteps DEF ModelShape
  <2> QED
    BY <1>1, <1>6, <2>1 DEF ModelShape
<1>7. CASE part \in {"calibration", "conversion"}
  <2>1. QuantizationInvariant /\ ConversionTyped
    BY <1>7 DEF ModelShape
  <2>2. CASE CalibrationNext
    <3>1. UNCHANGED conversionVars
      BY <2>2 DEF CalibrationNext, Observe, Reset, FakeQuantize
    <3> QED
      BY <1>1, <1>7, <2>1, <2>2, <3>1, CalibrationStep, ConversionTypeSteps DEF ModelShape
  <2>3. CASE ConversionNext
    <3>1. UNCHANGED calibrationVars
      BY <2>3, ConversionKeeps
    <3> QED
      BY <1>1, <1>7, <2>1, <2>3, <3>1, CalibrationStep, ConversionTypeSteps DEF ModelShape
  <2>4. CASE UNCHANGED <<calibrationVars, conversionVars>>
    BY <1>1, <1>7, <2>1, <2>4, CalibrationStep, ConversionTypeSteps DEF ModelShape
  <2> QED
    BY <1>2, <1>7, <2>2, <2>3, <2>4
<1>8. CASE part \notin {"tensors", "layers", "modules", "optimizer", "calibration", "conversion"}
  BY <1>1, <1>8 DEF ModelShape
<1> QED
  BY <1>3, <1>4, <1>5, <1>6, <1>7, <1>8

LEMMA DataKeepsShape == DataShape /\ [Next]_applicationVars => DataShape'
<1> SUFFICES ASSUME DataShape, [Next]_applicationVars PROVE DataShape'
  OBVIOUS
<1>1. /\ part' = part
      /\ part = "compliance" => [ComplianceNext]_complianceVars
      /\ part \in {"sanitizer", "presidio"} => [ScrubberNext]_scrubberVars
  BY DEF Next, PartOfTrust, PartOfDevices, PartOfModels, PartOfData, applicationVars,
         dataVars, ScrubberNext
<1>2. CASE part = "compliance"
  <2>1. ComplianceInvariant' /\ FrameworksTyped'
    BY <1>1, <1>2, ComplianceStep, FrameworksStep DEF DataShape
  <2> QED
    BY <1>1, <1>2, <2>1 DEF DataShape
<1>3. CASE part \in {"sanitizer", "presidio"}
  <2>1. ScrubberInvariant' /\ ScrubberTyped'
    BY <1>1, <1>3, ScrubberStep, ScrubberTypeSteps DEF DataShape
  <2> QED
    BY <1>1, <1>3, <2>1 DEF DataShape
<1>4. CASE part \notin {"compliance", "sanitizer", "presidio"}
  BY <1>1, <1>4 DEF DataShape
<1> QED
  BY <1>2, <1>3, <1>4

(* For any values of an application's constants, every part's state keeps its shape: among
   others, a device's lock is its creator's, what a registry has of a model is of a circuit
   that was built, a bucket does not count beyond its parameters, and SGD has no state. *)
THEOREM ApplicationsStayTyped == Spec => []ApplicationsTypeOK
<1>1. PartsTyped /\ [Next]_applicationVars => PartsTyped'
  BY TrustKeepsShape, DevicesKeepShape, ModelsKeepShape, DataKeepsShape DEF PartsTyped
<1> QED
  BY <1>1, PartsAreTyped, PartsStartTyped, PTL DEF Spec
=============================================================================
