--------------------------- MODULE P2PRoomsProofs ---------------------------
(***************************************************************************)
(* What P2PRooms guarantees for every set of connections, room ids and     *)
(* goroutines.                                                             *)
(***************************************************************************)
EXTENDS P2PRooms, FiniteSetTheorems, SequenceTheorems, TLAPS

-----------------------------------------------------------------------------
(* The tasks a goroutine has left, as a set.                               *)
Elems(ts) == {ts[i] : i \in 1 .. Len(ts)}

LEMMA ElemsNone == ASSUME NEW S PROVE <<>> \in Seq(S) /\ Elems(<<>>) = {}
  BY DEF Elems
LEMMA ElemsOne == ASSUME NEW S, NEW a \in S PROVE <<a>> \in Seq(S) /\ Elems(<<a>>) = {a}
  BY DEF Elems
LEMMA ElemsConcat ==
  ASSUME NEW S, NEW s \in Seq(S), NEW t \in Seq(S)
  PROVE  s \o t \in Seq(S) /\ Elems(s \o t) = Elems(s) \cup Elems(t)
<1>1. /\ s \o t \in Seq(S) /\ Len(s \o t) = Len(s) + Len(t)
      /\ \A i \in 1 .. Len(s) : (s \o t)[i] = s[i]
      /\ \A i \in 1 .. Len(t) : (s \o t)[Len(s) + i] = t[i]
  OBVIOUS
<1>2. Elems(s \o t) \subseteq Elems(s) \cup Elems(t)
  <2> SUFFICES ASSUME NEW i \in 1 .. Len(s \o t) PROVE (s \o t)[i] \in Elems(s) \cup Elems(t)
    BY DEF Elems
  <2>1. CASE i <= Len(s) BY <1>1, <2>1 DEF Elems
  <2>2. CASE i > Len(s)
    <3>1. i - Len(s) \in 1 .. Len(t) /\ i = Len(s) + (i - Len(s)) BY <1>1, <2>2
    <3> QED BY <1>1, <3>1 DEF Elems
  <2> QED BY <2>1, <2>2, <1>1
<1>3. Elems(s) \subseteq Elems(s \o t)
  <2> SUFFICES ASSUME NEW i \in 1 .. Len(s) PROVE s[i] \in Elems(s \o t) BY DEF Elems
  <2>1. i \in 1 .. Len(s \o t) BY <1>1
  <2> QED BY <1>1, <2>1 DEF Elems
<1>4. Elems(t) \subseteq Elems(s \o t)
  <2> SUFFICES ASSUME NEW i \in 1 .. Len(t) PROVE t[i] \in Elems(s \o t) BY DEF Elems
  <2>1. Len(s) + i \in 1 .. Len(s \o t) BY <1>1
  <2> QED BY <1>1, <2>1 DEF Elems
<1> QED BY <1>1, <1>2, <1>3, <1>4
LEMMA ElemsHeadTail ==
  ASSUME NEW S, NEW s \in Seq(S), s # <<>>
  PROVE  /\ Head(s) \in S /\ Tail(s) \in Seq(S)
         /\ Elems(s) = {Head(s)} \cup Elems(Tail(s))
<1>1. /\ Len(s) >= 1 /\ Head(s) = s[1] /\ Head(s) \in S /\ Tail(s) \in Seq(S)
      /\ Len(Tail(s)) = Len(s) - 1
      /\ \A i \in 1 .. Len(Tail(s)) : Tail(s)[i] = s[i + 1]
  OBVIOUS
<1>2. Elems(s) \subseteq {Head(s)} \cup Elems(Tail(s))
  <2> SUFFICES ASSUME NEW i \in 1 .. Len(s), i # 1 PROVE s[i] \in Elems(Tail(s))
    BY <1>1 DEF Elems
  <2>1. i - 1 \in 1 .. Len(Tail(s)) /\ i = (i - 1) + 1 BY <1>1
  <2> QED BY <1>1, <2>1 DEF Elems
<1>3. Elems(Tail(s)) \subseteq Elems(s)
  <2> SUFFICES ASSUME NEW i \in 1 .. Len(Tail(s)) PROVE s[i + 1] \in Elems(s)
    BY <1>1 DEF Elems
  <2> QED BY <1>1 DEF Elems
<1>4. Head(s) \in Elems(s) BY <1>1 DEF Elems
<1> QED BY <1>1, <1>2, <1>3, <1>4

(* What each way of building a list of tasks puts into it.                 *)
LEMMA CloseTask ==
  ASSUME NEW ps \in SUBSET Conns
  PROVE  /\ closePeers(ps) \in Seq(Task)
         /\ \A x \in Elems(closePeers(ps)) : x = [op |-> "close", peers |-> ps]
         /\ ps # {} => [op |-> "close", peers |-> ps] \in Elems(closePeers(ps))
<1>1. [op |-> "close", peers |-> ps] \in Task BY DEF Task
<1> QED BY <1>1, ElemsOne, ElemsNone DEF closePeers
LEMMA CloseOne ==
  ASSUME NEW c \in Conns
  PROVE  closePeers({c}) \in Seq(Task) /\ \A x \in Elems(closePeers({c})) : x.op = "close"
<1> DEFINE ps == {c}
<1>1. ps \in SUBSET Conns OBVIOUS
<1> HIDE DEF ps
<1>2. closePeers(ps) \in Seq(Task) /\ \A x \in Elems(closePeers(ps)) : x = [op |-> "close", peers |-> ps]
  BY <1>1, CloseTask
<1>3. \A x \in Elems(closePeers(ps)) : x.op = "close" BY <1>2
<1> QED BY <1>2, <1>3 DEF ps
LEMMA SendTask ==
  ASSUME NEW id \in RoomIds, NEW ps \in SUBSET Conns, NEW event \in Events
  PROVE  /\ sendPeers(id, ps, event) \in Seq(Task)
         /\ \A x \in Elems(sendPeers(id, ps, event)) : x.op = "send" /\ x.failed = {}
<1> DEFINE x0 == [op |-> "send", id |-> id, peers |-> ps, event |-> event, failed |-> {}]
<1>1. x0 \in Task /\ x0.op = "send" /\ x0.failed = {} BY DEF Task
<1>2. sendPeers(id, ps, event) \in {<<>>, <<x0>>} BY DEF sendPeers
<1> HIDE DEF x0
<1>3. <<>> \in Seq(Task) /\ Elems(<<>>) = {} BY ElemsNone
<1>4. <<x0>> \in Seq(Task) /\ Elems(<<x0>>) = {x0} BY <1>1, ElemsOne
<1>5. CASE sendPeers(id, ps, event) = <<>> BY <1>3, <1>5
<1>6. CASE sendPeers(id, ps, event) = <<x0>> BY <1>1, <1>4, <1>6
<1> QED BY <1>2, <1>5, <1>6
LEMMA LeaveTask ==
  ASSUME NEW id \in RoomIds, NEW ps \in SUBSET Conns, NEW im \in BOOLEAN
  PROVE  /\ leaveAll(id, ps, im) \in Seq(Task)
         /\ \A x \in Elems(leaveAll(id, ps, im)) :
              x = [op |-> "leave", id |-> id, peers |-> ps, immediate |-> im]
         /\ ps # {} => [op |-> "leave", id |-> id, peers |-> ps, immediate |-> im]
                          \in Elems(leaveAll(id, ps, im))
<1>1. [op |-> "leave", id |-> id, peers |-> ps, immediate |-> im] \in Task BY DEF Task
<1> QED BY <1>1, ElemsOne, ElemsNone DEF leaveAll
LEMMA BroadcastTask ==
  ASSUME NEW id \in RoomIds, NEW event \in Events
  PROVE  broadcast(id, event) \in Seq(Task) /\ \A x \in Elems(broadcast(id, event)) : x.op = "broadcast"
<1>1. [op |-> "broadcast", id |-> id, event |-> event] \in Task BY DEF Task
<1> QED BY <1>1, ElemsOne DEF broadcast
LEMMA CountTask == roomCount \in Seq(Task) /\ \A x \in Elems(roomCount) : x.op = "count"
<1>1. [op |-> "count"] \in Task BY DEF Task
<1> QED BY <1>1, ElemsOne DEF roomCount
LEMMA JoinedTask ==
  ASSUME NEW ps \in SUBSET Conns
  PROVE  /\ <<[op |-> "joined", existing |-> ps]>> \in Seq(Task)
         /\ \A x \in Elems(<<[op |-> "joined", existing |-> ps]>>) : x.op = "joined"
<1>1. [op |-> "joined", existing |-> ps] \in Task BY DEF Task
<1> QED BY <1>1, ElemsOne
LEMMA TaskFields ==
  ASSUME NEW x \in Task
  PROVE  /\ x.op = "close" => x.peers \subseteq Conns
         /\ x.op = "send" => x.id \in RoomIds /\ x.peers \subseteq Conns /\ x.event \in Events /\ x.failed \subseteq Conns
         /\ x.op = "leave" => x.id \in RoomIds /\ x.peers \subseteq Conns /\ x.immediate \in BOOLEAN
         /\ x.op = "broadcast" => x.id \in RoomIds /\ x.event \in Events
         /\ x.op = "joined" => x.existing \subseteq Conns
  BY DEF Task
-----------------------------------------------------------------------------
(* The rooms.                                                              *)
RoomsOK(rs) ==
  /\ rs = [id \in DOMAIN rs |-> rs[id]] /\ DOMAIN rs \subseteq RoomIds
  /\ \A id \in DOMAIN rs : rs[id] \in RoomState /\ IsFiniteSet(rs[id].peers)
  /\ IsFiniteSet(DOMAIN rs) /\ Cardinality(DOMAIN rs) <= MaxRooms

LEMMA NoRooms ==
  ASSUME NEW rs, rs = [id \in {} |-> 0]
  PROVE  RoomsOK(rs) /\ DOMAIN rs = {}
<1>1. DOMAIN rs = {} OBVIOUS
<1> QED BY <1>1, FS_EmptySet, P2PAssumption DEF RoomsOK

LEMMA Keeps ==
  ASSUME NEW rs, RoomsOK(rs), NEW D \in SUBSET DOMAIN rs
  PROVE  LET qs == [id \in D |-> rs[id]] IN
         RoomsOK(qs) /\ DOMAIN qs = D /\ \A id \in D : qs[id] = rs[id]
<1>1. IsFiniteSet(D) /\ Cardinality(D) <= Cardinality(DOMAIN rs) BY FS_Subset DEF RoomsOK
<1>2. Cardinality(D) \in Nat /\ Cardinality(DOMAIN rs) \in Nat BY <1>1, FS_CardinalityType DEF RoomsOK
<1> DEFINE qs == [id \in D |-> rs[id]]
<1>3. DOMAIN qs = D /\ \A id \in D : qs[id] = rs[id] OBVIOUS
<1>4. RoomsOK(qs)
  <2> HIDE DEF qs
  <2>1. Cardinality(D) <= MaxRooms BY <1>1, <1>2, P2PAssumption DEF RoomsOK
  <2>2. qs = [id \in DOMAIN qs |-> qs[id]] BY <1>3 DEF qs
  <2> QED BY <1>1, <1>3, <2>1, <2>2 DEF RoomsOK
<1> QED BY <1>3, <1>4

LEMMA RoomFields ==
  ASSUME NEW r \in RoomState
  PROVE  /\ r.inc \in 1 .. MaxCreates /\ r.expiresAt \in Nat /\ r.expiryAt \in Nat \cup {Never}
         /\ r.peers \subseteq Conns /\ Cardinality(r.peers) <= MaxPeers
  BY DEF RoomState

(* A room changed in place keeps its number and its times.                 *)
LEMMA Changed ==
  ASSUME NEW rs, RoomsOK(rs), NEW id \in DOMAIN rs, NEW r \in RoomState, IsFiniteSet(r.peers)
  PROVE  LET qs == [rs EXCEPT ![id] = r] IN
         /\ RoomsOK(qs) /\ DOMAIN qs = DOMAIN rs /\ qs[id] = r
         /\ \A x \in DOMAIN rs : x # id => qs[x] = rs[x]
<1> DEFINE qs == [rs EXCEPT ![id] = r]
<1>1. /\ DOMAIN qs = DOMAIN rs /\ qs[id] = r
      /\ \A x \in DOMAIN rs : x # id => qs[x] = rs[x]
  OBVIOUS
<1>2. qs = [x \in DOMAIN qs |-> qs[x]] OBVIOUS
<1> HIDE DEF qs
<1>3. \A x \in DOMAIN qs : qs[x] \in RoomState /\ IsFiniteSet(qs[x].peers) BY <1>1 DEF RoomsOK
<1>4. RoomsOK(qs) BY <1>1, <1>2, <1>3 DEF RoomsOK
<1> QED BY <1>1, <1>4 DEF qs
LEMMA Pruned ==
  ASSUME RoomsOK(rooms), now \in Time, NEW t \in SampledNow
  PROVE  LET rs == pruneExpiredLocked(t) IN
         /\ RoomsOK(rs) /\ DOMAIN rs \subseteq DOMAIN rooms
         /\ \A id \in DOMAIN rs : rs[id] = rooms[id]
         /\ \A id \in DOMAIN rooms \ DOMAIN rs :
              rooms[id].expiresAt <= now /\ rooms[id].peers \subseteq ExpiredPeers(t)
         /\ ExpiredPeers(t) \subseteq Conns /\ t \in Time /\ t <= now
<1> DEFINE rs == pruneExpiredLocked(t)
           D == DOMAIN rooms \ Expired(t)
<1>1. D \subseteq DOMAIN rooms OBVIOUS
<1>2. rs = [id \in D |-> rooms[id]] BY DEF pruneExpiredLocked
<1>3. RoomsOK(rs) /\ DOMAIN rs = D /\ \A id \in D : rs[id] = rooms[id] BY <1>1, <1>2, Keeps
<1>4. t \in Nat /\ t <= now /\ t \in Time /\ now \in Nat BY DEF SampledNow, Time
<1>5. ASSUME NEW id \in DOMAIN rooms \ D
      PROVE  rooms[id].expiresAt <= now /\ rooms[id].peers \subseteq ExpiredPeers(t)
  <2>1. id \in Expired(t) BY <1>5
  <2>2. rooms[id].expiresAt \in Nat BY <1>5, RoomFields DEF RoomsOK
  <2>3. rooms[id].expiresAt <= t BY <2>1 DEF Expired
  <2>4. rooms[id].peers \subseteq ExpiredPeers(t) BY <2>1 DEF ExpiredPeers
  <2> QED BY <2>2, <2>3, <2>4, <1>4
<1>6. ExpiredPeers(t) \subseteq Conns
  <2>1. \A id \in Expired(t) : id \in DOMAIN rooms BY DEF Expired
  <2>2. \A id \in DOMAIN rooms : rooms[id].peers \subseteq Conns BY RoomFields DEF RoomsOK
  <2> QED BY <2>1, <2>2 DEF ExpiredPeers
<1> QED BY <1>1, <1>3, <1>4, <1>5, <1>6

LEMMA JoinedRoom ==
  ASSUME NEW r0 \in RoomState, IsFiniteSet(r0.peers), Cardinality(r0.peers) < MaxPeers, NEW c \in Conns
  PROVE  LET r == [r0 EXCEPT !.cleanupAt = Never, !.peers = @ \cup {c}] IN
         /\ r \in RoomState /\ IsFiniteSet(r.peers) /\ r.peers = r0.peers \cup {c}
         /\ r.inc = r0.inc /\ r.expiresAt = r0.expiresAt /\ r.expiryAt = r0.expiryAt
<1> DEFINE r == [r0 EXCEPT !.cleanupAt = Never, !.peers = @ \cup {c}]
<1>3. /\ r.peers = r0.peers \cup {c} /\ r.inc = r0.inc /\ r.expiresAt = r0.expiresAt
      /\ r.expiryAt = r0.expiryAt /\ r.cleanupAt = Never /\ r.emptySince = r0.emptySince
  BY DEF RoomState
<1>4. IsFiniteSet(r.peers) /\ Cardinality(r.peers) <= MaxPeers
  <2>1. Cardinality(r0.peers) \in Nat BY FS_CardinalityType
  <2>2. /\ IsFiniteSet(r0.peers \cup {c})
        /\ Cardinality(r0.peers \cup {c}) = IF c \in r0.peers THEN Cardinality(r0.peers) ELSE Cardinality(r0.peers) + 1
    BY FS_AddElement
  <2>3. MaxPeers \in Nat BY P2PAssumption
  <2> QED BY <1>3, <2>1, <2>2, <2>3
<1>5. r \in RoomState BY <1>3, <1>4 DEF RoomState
<1> QED BY <1>3, <1>4, <1>5

LEMMA Uncleaned ==
  ASSUME NEW rs, RoomsOK(rs), NEW id \in DOMAIN rs, NEW field \in {"cleanupAt", "expiryAt"}
  PROVE  LET qs == IF field = "cleanupAt" THEN [rs EXCEPT ![id].cleanupAt = Never]
                   ELSE [rs EXCEPT ![id].expiryAt = Never] IN
         /\ RoomsOK(qs) /\ DOMAIN qs = DOMAIN rs
         /\ \A x \in DOMAIN rs : /\ qs[x].peers = rs[x].peers /\ qs[x].inc = rs[x].inc
                                 /\ qs[x].expiresAt = rs[x].expiresAt
                                 /\ qs[x].expiryAt \in {rs[x].expiryAt, Never}
<1> DEFINE r0 == rs[id]
           r == IF field = "cleanupAt" THEN [r0 EXCEPT !.cleanupAt = Never] ELSE [r0 EXCEPT !.expiryAt = Never]
           qs == IF field = "cleanupAt" THEN [rs EXCEPT ![id].cleanupAt = Never]
                 ELSE [rs EXCEPT ![id].expiryAt = Never]
<1>1. r0 \in RoomState /\ IsFiniteSet(r0.peers) BY DEF RoomsOK
<1>2. qs = [rs EXCEPT ![id] = r] OBVIOUS
<1> HIDE DEF r0
<1>3. /\ r.peers = r0.peers /\ r.inc = r0.inc /\ r.expiresAt = r0.expiresAt
      /\ r.expiryAt \in {r0.expiryAt, Never} /\ r \in RoomState
  BY <1>1 DEF RoomState
<1> HIDE DEF r, qs
<1>4. /\ RoomsOK(qs) /\ DOMAIN qs = DOMAIN rs /\ qs[id] = r
      /\ \A x \in DOMAIN rs : x # id => qs[x] = rs[x]
  BY <1>1, <1>2, <1>3, Changed
<1> QED BY <1>3, <1>4 DEF qs, r0

LEMMA LeftRooms ==
  ASSUME NEW rs, RoomsOK(rs), NEW id, NEW p, IsMember(rs, id, p), NEW im \in BOOLEAN, now \in Time
  PROVE  LET qs == AfterLeave(rs, id, p, im) IN
         /\ RoomsOK(qs) /\ DOMAIN qs \subseteq DOMAIN rs /\ id \in DOMAIN rs
         /\ id \notin DOMAIN qs => rs[id].peers = {p}
         /\ \A x \in DOMAIN rs : x # id => x \in DOMAIN qs /\ qs[x] = rs[x]
         /\ id \in DOMAIN qs => /\ qs[id].peers = rs[id].peers \ {p}
                                /\ qs[id].inc = rs[id].inc /\ qs[id].expiresAt = rs[id].expiresAt
                                /\ qs[id].expiryAt = rs[id].expiryAt
<1> DEFINE r0 == rs[id]
           left == r0.peers \ {p}
           qs == AfterLeave(rs, id, p, im)
<1>1. id \in DOMAIN rs /\ r0 \in RoomState /\ IsFiniteSet(r0.peers) /\ p \in r0.peers
  BY DEF IsMember, RoomsOK
<1>2. IsFiniteSet(left) /\ Cardinality(left) <= MaxPeers /\ left \subseteq Conns
  <2>1. IsFiniteSet(left) /\ Cardinality(left) = Cardinality(r0.peers) - 1 BY <1>1, FS_RemoveElement
  <2>2. Cardinality(r0.peers) \in Nat BY <1>1, FS_CardinalityType
  <2>3. Cardinality(r0.peers) <= MaxPeers /\ r0.peers \subseteq Conns BY <1>1, RoomFields
  <2>4. MaxPeers \in Nat BY P2PAssumption
  <2> QED BY <2>1, <2>2, <2>3, <2>4
<1> DEFINE r1 == [r0 EXCEPT !.peers = left]
           r2 == [r0 EXCEPT !.peers = {}, !.emptySince = now, !.cleanupAt = now + EmptyRoomGrace]
<1>3. CASE left # {}
  <2>1. qs = [rs EXCEPT ![id] = r1] BY <1>1, <1>3 DEF AfterLeave
  <2>2. /\ r1.peers = left /\ r1.inc = r0.inc /\ r1.expiresAt = r0.expiresAt /\ r1.expiryAt = r0.expiryAt
        /\ r1 \in RoomState
    BY <1>1, <1>2 DEF RoomState
  <2> HIDE DEF r1, qs, r0, left
  <2>3. /\ RoomsOK(qs) /\ DOMAIN qs = DOMAIN rs /\ qs[id] = r1
        /\ \A x \in DOMAIN rs : x # id => qs[x] = rs[x]
    BY <1>1, <1>2, <2>1, <2>2, Changed
  <2> QED BY <1>1, <2>2, <2>3 DEF qs, left, r0
<1>4. CASE left = {} /\ (im \/ EmptyRoomGrace = 0)
  <2>1. qs = [x \in DOMAIN rs \ {id} |-> rs[x]] BY <1>4 DEF AfterLeave, Without
  <2> HIDE DEF qs
  <2>2. /\ RoomsOK(qs) /\ DOMAIN qs = DOMAIN rs \ {id}
        /\ \A x \in DOMAIN rs \ {id} : qs[x] = rs[x]
    BY <2>1, Keeps
  <2>3. rs[id].peers = {p} BY <1>1, <1>4
  <2> QED BY <1>1, <2>2, <2>3 DEF qs
<1>5. CASE left = {} /\ ~(im \/ EmptyRoomGrace = 0)
  <2>1. qs = [rs EXCEPT ![id] = r2] BY <1>1, <1>5 DEF AfterLeave
  <2>2. now + EmptyRoomGrace \in Nat BY P2PAssumption DEF Time
  <2>3. {} \in {ps \in SUBSET Conns : Cardinality(ps) <= MaxPeers} /\ IsFiniteSet({})
    BY FS_EmptySet, P2PAssumption
  <2>4. /\ r2.peers = {} /\ r2.inc = r0.inc /\ r2.expiresAt = r0.expiresAt /\ r2.expiryAt = r0.expiryAt
        /\ r2 \in RoomState
    BY <1>1, <2>2, <2>3 DEF RoomState
  <2>6. IsFiniteSet(r2.peers) BY <2>3, <2>4
  <2> HIDE DEF r2, qs, r0, left
  <2>5. /\ RoomsOK(qs) /\ DOMAIN qs = DOMAIN rs /\ qs[id] = r2
        /\ \A x \in DOMAIN rs : x # id => qs[x] = rs[x]
    BY <1>1, <2>1, <2>4, <2>6, Changed
  <2> QED BY <1>1, <1>5, <2>4, <2>5 DEF qs, r0, left
<1> QED BY <1>3, <1>4, <1>5

LEMMA CreatedRooms ==
  ASSUME NEW rs, RoomsOK(rs), NEW id \in RoomIds, id \notin DOMAIN rs, NEW r \in RoomState, r.peers = {},
         Cardinality(DOMAIN rs) < MaxRooms
  PROVE  LET qs == [x \in DOMAIN rs \cup {id} |-> IF x = id THEN r ELSE rs[x]] IN
         /\ RoomsOK(qs) /\ DOMAIN qs = DOMAIN rs \cup {id} /\ qs[id] = r
         /\ \A x \in DOMAIN rs : qs[x] = rs[x]
<1> DEFINE qs == [x \in DOMAIN rs \cup {id} |-> IF x = id THEN r ELSE rs[x]]
<1>1. /\ DOMAIN qs = DOMAIN rs \cup {id} /\ qs[id] = r
      /\ \A x \in DOMAIN rs : qs[x] = rs[x]
  OBVIOUS
<1>2. qs = [x \in DOMAIN qs |-> qs[x]] OBVIOUS
<1> HIDE DEF qs
<1>3. IsFiniteSet(r.peers) BY FS_EmptySet
<1>4. \A x \in DOMAIN qs : qs[x] \in RoomState /\ IsFiniteSet(qs[x].peers) BY <1>1, <1>3 DEF RoomsOK
<1>5. IsFiniteSet(DOMAIN qs) /\ Cardinality(DOMAIN qs) <= MaxRooms
  <2>3. IsFiniteSet(DOMAIN rs) BY DEF RoomsOK
  <2>4. /\ IsFiniteSet(DOMAIN rs \cup {id})
        /\ Cardinality(DOMAIN rs \cup {id})
             = IF id \in DOMAIN rs THEN Cardinality(DOMAIN rs) ELSE Cardinality(DOMAIN rs) + 1
    BY <2>3, FS_AddElement
  <2>1. IsFiniteSet(DOMAIN qs) /\ Cardinality(DOMAIN qs) = Cardinality(DOMAIN rs) + 1
    BY <1>1, <2>4
  <2>2. Cardinality(DOMAIN rs) \in Nat BY FS_CardinalityType DEF RoomsOK
  <2> QED BY <2>1, <2>2, P2PAssumption
<1>6. DOMAIN qs \subseteq RoomIds BY <1>1 DEF RoomsOK
<1>7. RoomsOK(qs) BY <1>2, <1>4, <1>5, <1>6 DEF RoomsOK
<1> QED BY <1>1, <1>7 DEF qs

-----------------------------------------------------------------------------
(* The inductive invariant.                                                *)
HasClose(ts, p) == \E x \in Elems(ts) : x.op = "close" /\ p \in x.peers
HasLeave(ts, id, p) == \E x \in Elems(ts) : x.op = "leave" /\ x.id = id /\ p \in x.peers
Inside(rs, p) == \E id \in DOMAIN rs : p \in rs[id].peers
Attending == {"joining", "reading"}

Callback == [kind : {"expire", "cleanup"}, id : RoomIds, inc : 1 .. MaxCreates, at : Nat]

Typed ==
  /\ RoomsOK(rooms)
  /\ closed \in BOOLEAN /\ closeDone \in BOOLEAN
  /\ callbacks \subseteq Callback
  /\ detached \subseteq Conns
  /\ conn \in [Conns -> {"none", "open", "closed"}]
  /\ phase \in [Goroutines ->
       {"idle", "joining", "reading", "leaving", "closing", "returned"}]
  /\ roomOf \in [Conns -> RoomIds \cup {NoRoom}]
  /\ tasks \in [Goroutines -> Seq(Task)]
  /\ now \in Time /\ created \in 0 .. MaxCreates
  /\ failedSend \subseteq Conns /\ shutdown \subseteq Conns

\* A handler past its Join has a room id, and a peer of a room is a handler
\* that asked for it.
AtHome ==
  /\ \A c \in Conns : phase[c] # "idle" => roomOf[c] \in RoomIds
  /\ \A id \in DOMAIN rooms : \A p \in rooms[id].peers :
       p \in Conns /\ roomOf[p] = id /\ phase[p] # "idle"

\* The first frame of a Join is the last thing its goroutine has left.
JoinTasks(ts) ==
  \E ps, ex \in SUBSET Conns :
    ts = closePeers(ps) \o <<[op |-> "joined", existing |-> ex]>>
JoinShape ==
  \A c \in Conns :
    /\ phase[c] = "joining" => JoinTasks(tasks[c])
    /\ phase[c] # "joining" => \A x \in Elems(tasks[c]) : x.op # "joined"

\* Only a peer that is leaving, or that some frame did not reach, is made to
\* leave.
Grounded(x) ==
  /\ x.op = "leave" => \A p \in x.peers : phase[p] = "leaving" \/ p \in failedSend
  /\ x.op = "send" => x.failed \subseteq failedSend
LeavesGrounded == \A g \in Goroutines : \A x \in Elems(tasks[g]) : Grounded(x)

\* A leaving handler whose peer is still in the room has its Leave to run.
LeavePending ==
  \A c \in Conns :
    phase[c] = "leaving" /\ Inside(rooms, c) => HasLeave(tasks[c], roomOf[c], c)

\* NoOrphanConnection, from the moment of the Join.
Closing(c) == c \in detached \/ \E g \in Goroutines : HasClose(tasks[g], c)
Attended ==
  \A c \in Conns :
    phase[c] \in Attending /\ conn[c] = "open" /\ c \notin failedSend
      => Inside(rooms, c) \/ Closing(c)

\* The batch of the first Close, and what its end means.
Batch ==
  /\ closed => DOMAIN rooms = {}
  /\ closeDone => closed /\ \A p \in shutdown : conn[p] = "closed"
  /\ \A p \in shutdown : phase[p] # "idle"
  /\ \A s \in Closers :
       /\ phase[s] = "idle" => tasks[s] = <<>>
       /\ phase[s] = "closing" =>
            closed /\ \A p \in shutdown : conn[p] = "closed" \/ HasClose(tasks[s], p)
       /\ phase[s] = "returned" => closeDone

\* Rooms and timer callbacks are numbered by what was created before; an
\* expiry timer fires no earlier than its room's ExpiresAt.
Timers ==
  /\ \A id \in DOMAIN rooms :
       /\ rooms[id].inc <= created
       /\ rooms[id].expiryAt # Never => rooms[id].expiresAt <= rooms[id].expiryAt
  /\ \A cb \in callbacks :
       /\ cb.inc <= created
       /\ cb.kind = "expire" /\ cb.id \in DOMAIN rooms /\ rooms[cb.id].inc = cb.inc
            => rooms[cb.id].expiresAt <= now

Inv ==
  /\ Typed /\ AtHome /\ JoinShape /\ LeavesGrounded /\ LeavePending /\ Attended
  /\ Batch /\ Timers

-----------------------------------------------------------------------------
(* What a step may do to the pieces the invariant relates, and why that    *)
(* keeps the invariant.                                                    *)
SameRoom(r, q) ==
  q.inc = r.inc /\ q.expiresAt = r.expiresAt /\ q.expiryAt \in {r.expiryAt, Never}

RoomsStep ==
  /\ created' \in {created, created + 1}
  /\ \A id \in DOMAIN rooms' :
       \/ id \in DOMAIN rooms /\ SameRoom(rooms[id], rooms'[id])
       \/ /\ rooms'[id].inc = created + 1 /\ created' = created + 1
          /\ rooms'[id].expiresAt <= rooms'[id].expiryAt
  /\ \A id \in DOMAIN rooms' : \A p \in rooms'[id].peers :
       \/ id \in DOMAIN rooms /\ p \in rooms[id].peers
       \/ p \in Conns /\ roomOf'[p] = id /\ phase'[p] = "joining"

ConnStep ==
  /\ failedSend \subseteq failedSend'
  /\ \A c \in Conns :
       /\ phase'[c] # "idle" => roomOf'[c] \in RoomIds
       /\ phase[c] # "idle" =>
            /\ roomOf'[c] = roomOf[c] /\ phase'[c] # "idle"
            /\ phase[c] = "leaving" => phase'[c] = "leaving"
            /\ phase'[c] \in Attending => phase[c] \in Attending
            /\ conn'[c] = "open" => conn[c] = "open"
            /\ conn[c] = "closed" => conn'[c] = "closed"
       /\ phase[c] = "idle" /\ phase'[c] \in Attending => Inside(rooms', c)
       /\ phase'[c] = "leaving" /\ phase[c] # "leaving" /\ Inside(rooms', c)
            => HasLeave(tasks'[c], roomOf'[c], c)

MemberStep ==
  /\ \A c \in Conns : Inside(rooms, c) =>
       Inside(rooms', c) \/ Closing(c)' \/ phase'[c] = "leaving" \/ c \in failedSend'
  /\ \A c \in detached : c \in detached' \/ conn'[c] = "closed"

TaskStep ==
  /\ \A g \in Goroutines : \A p \in Conns :
       HasClose(tasks[g], p) => HasClose(tasks'[g], p) \/ conn'[p] = "closed"
  /\ \A c \in Conns :
       phase[c] = "leaving" /\ Inside(rooms', c) /\ HasLeave(tasks[c], roomOf[c], c)
         => HasLeave(tasks'[c], roomOf[c], c)
  /\ \A g \in Goroutines : \A x \in Elems(tasks'[g]) :
       x \in Elems(tasks[g]) \/ Grounded(x)'

CloserStep ==
  /\ closed' = closed /\ closeDone' = closeDone /\ shutdown' = shutdown
  /\ DOMAIN rooms = {} => DOMAIN rooms' = {} \/ ~closed
  /\ \A s \in Closers :
       phase'[s] = phase[s] /\ (phase[s] = "idle" => tasks'[s] = <<>>)

TimerStep ==
  /\ now <= now'
  /\ \A cb \in callbacks' : cb \in callbacks \/
       /\ cb.inc <= created'
       /\ cb.kind = "expire" /\ cb.id \in DOMAIN rooms' /\ rooms'[cb.id].inc = cb.inc
            => rooms'[cb.id].expiresAt <= now'

LEMMA InGoroutines == Conns \subseteq Goroutines /\ Requests \subseteq Goroutines /\ Closers \subseteq Goroutines
  BY DEF Goroutines

LEMMA Steps ==
  ASSUME Inv, Typed', RoomsStep, ConnStep, MemberStep, TaskStep, TimerStep
  PROVE  AtHome' /\ LeavesGrounded' /\ LeavePending' /\ Attended' /\ Timers'
<1> USE InGoroutines
<1>1. AtHome'
  <2>1. \A c \in Conns : phase'[c] # "idle" => roomOf'[c] \in RoomIds BY DEF ConnStep
  <2>2. ASSUME NEW id \in DOMAIN rooms', NEW p \in rooms'[id].peers
        PROVE  p \in Conns /\ roomOf'[p] = id /\ phase'[p] # "idle"
    <3>1. CASE id \in DOMAIN rooms /\ p \in rooms[id].peers
      <4>1. p \in Conns /\ roomOf[p] = id /\ phase[p] # "idle" BY <3>1 DEF Inv, AtHome
      <4> QED BY <4>1 DEF ConnStep
    <3>2. CASE p \in Conns /\ roomOf'[p] = id /\ phase'[p] = "joining" BY <3>2
    <3> QED BY <2>2, <3>1, <3>2 DEF RoomsStep
  <2> QED BY <2>1, <2>2 DEF AtHome
<1>2. LeavesGrounded'
  <2> SUFFICES ASSUME NEW g \in Goroutines, NEW x \in Elems(tasks'[g]) PROVE Grounded(x)'
    BY DEF LeavesGrounded
  <2>1. CASE x \in Elems(tasks[g])
    <3>1. tasks[g] \in Seq(Task) BY DEF Inv, Typed
    <3>2. x \in Task BY <2>1, <3>1 DEF Elems
    <3>3. x.op = "leave" => x.peers \subseteq Conns BY <3>2, TaskFields
    <3>4. Grounded(x) BY <2>1 DEF Inv, LeavesGrounded
    <3>5. failedSend \subseteq failedSend' BY DEF ConnStep
    <3>6. \A p \in Conns : phase[p] = "leaving" => phase'[p] = "leaving" BY DEF ConnStep
    <3> QED BY <3>3, <3>4, <3>5, <3>6 DEF Grounded
  <2> QED BY <2>1 DEF TaskStep
<1>3. LeavePending'
  <2> SUFFICES ASSUME NEW c \in Conns, phase'[c] = "leaving", Inside(rooms', c)
               PROVE  HasLeave(tasks'[c], roomOf'[c], c)
    BY DEF LeavePending
  <2>1. CASE phase[c] # "leaving" BY <2>1 DEF ConnStep
  <2>2. CASE phase[c] = "leaving"
    <3>1. PICK id \in DOMAIN rooms' : c \in rooms'[id].peers BY DEF Inside
    <3>2. Inside(rooms, c) BY <3>1 DEF RoomsStep, Inside
    <3>3. HasLeave(tasks[c], roomOf[c], c) BY <2>2, <3>2 DEF Inv, LeavePending
    <3>4. roomOf'[c] = roomOf[c] BY <2>2 DEF ConnStep
    <3> QED BY <2>2, <3>3, <3>4 DEF TaskStep
  <2> QED BY <2>1, <2>2
<1>4. Attended'
  <2> SUFFICES ASSUME NEW c \in Conns, phase'[c] \in Attending, conn'[c] = "open", c \notin failedSend'
               PROVE  Inside(rooms', c) \/ Closing(c)'
    BY DEF Attended
  <2>1. CASE phase[c] = "idle" BY <2>1 DEF ConnStep
  <2>2. CASE phase[c] # "idle"
    <3>1. phase[c] \in Attending /\ conn[c] = "open" /\ c \notin failedSend BY <2>2 DEF ConnStep
    <3>2. Inside(rooms, c) \/ Closing(c) BY <3>1 DEF Inv, Attended
    <3>3. CASE Inside(rooms, c) BY <3>3 DEF MemberStep, Attending
    <3>4. CASE c \in detached BY <3>4 DEF MemberStep, Closing
    <3>5. CASE \E g \in Goroutines : HasClose(tasks[g], c)
      <4>1. PICK g \in Goroutines : HasClose(tasks[g], c) BY <3>5
      <4>2. HasClose(tasks'[g], c) BY <4>1 DEF TaskStep
      <4> QED BY <4>2 DEF Closing
    <3> QED BY <3>2, <3>3, <3>4, <3>5 DEF Closing
  <2> QED BY <2>1, <2>2
<1>5. Timers'
  <2>1. /\ created \in Nat /\ created' \in Nat /\ created <= created' /\ now \in Nat /\ now' \in Nat
        /\ RoomsOK(rooms) /\ RoomsOK(rooms')
    BY DEF Inv, Typed, RoomsStep, Time
  <2>2. ASSUME NEW id \in DOMAIN rooms
        PROVE  rooms[id].inc \in Nat /\ rooms[id].expiresAt \in Nat /\ rooms[id].expiryAt \in Nat \cup {Never}
    BY <2>1, RoomFields DEF RoomsOK
  <2>3. ASSUME NEW id \in DOMAIN rooms'
        PROVE  /\ rooms'[id].inc <= created'
               /\ rooms'[id].expiryAt # Never => rooms'[id].expiresAt <= rooms'[id].expiryAt
    <3>1. CASE id \in DOMAIN rooms /\ SameRoom(rooms[id], rooms'[id])
      BY <2>1, <2>2, <3>1 DEF Inv, Timers, SameRoom
    <3>2. CASE rooms'[id].inc = created + 1 /\ created' = created + 1
               /\ rooms'[id].expiresAt <= rooms'[id].expiryAt
      BY <2>1, <3>2
    <3> QED BY <2>3, <3>1, <3>2 DEF RoomsStep
  <2>4. ASSUME NEW cb \in callbacks'
        PROVE  /\ cb.inc <= created'
               /\ cb.kind = "expire" /\ cb.id \in DOMAIN rooms' /\ rooms'[cb.id].inc = cb.inc
                    => rooms'[cb.id].expiresAt <= now'
    <3>1. CASE cb \in callbacks
      <4>1. cb \in Callback BY <3>1 DEF Inv, Typed
      <4>2. cb.inc \in Nat BY <4>1 DEF Callback
      <4>3. cb.inc <= created BY <3>1 DEF Inv, Timers
      <4>4. cb.inc <= created' BY <2>1, <4>2, <4>3
      <4>5. ASSUME cb.kind = "expire", cb.id \in DOMAIN rooms', rooms'[cb.id].inc = cb.inc
            PROVE  rooms'[cb.id].expiresAt <= now'
        <5>1. cb.id \in DOMAIN rooms /\ SameRoom(rooms[cb.id], rooms'[cb.id])
          BY <4>5, <4>2, <4>3, <2>1 DEF RoomsStep
        <5>2. rooms[cb.id].expiresAt <= now BY <3>1, <4>5, <5>1 DEF Inv, Timers, SameRoom
        <5>3. rooms[cb.id].expiresAt \in Nat BY <2>2, <5>1
        <5> QED BY <2>1, <5>1, <5>2, <5>3 DEF SameRoom, TimerStep
      <4> QED BY <4>4, <4>5
    <3> QED BY <2>4, <3>1 DEF TimerStep
  <2> QED BY <2>3, <2>4 DEF Timers
<1> QED BY <1>1, <1>2, <1>3, <1>4, <1>5

LEMMA BatchKept ==
  ASSUME Inv, Typed', ConnStep, TaskStep, CloserStep
  PROVE  Batch'
<1> USE InGoroutines
<1>1. closed' => DOMAIN rooms' = {} BY DEF CloserStep, Inv, Batch
<1>2. shutdown' = shutdown /\ shutdown \subseteq Conns /\ \A p \in shutdown : phase[p] # "idle"
  BY DEF CloserStep, Inv, Batch, Typed
<1>3. \A p \in shutdown' : phase'[p] # "idle" BY <1>2 DEF ConnStep
<1>4. \A p \in shutdown : conn[p] = "closed" => conn'[p] = "closed" BY <1>2 DEF ConnStep
<1>5. closeDone' => closed' /\ \A p \in shutdown' : conn'[p] = "closed"
  BY <1>2, <1>4 DEF CloserStep, Inv, Batch
<1>6. ASSUME NEW s \in Closers
      PROVE  /\ phase'[s] = "idle" => tasks'[s] = <<>>
             /\ phase'[s] = "closing" =>
                  closed' /\ \A p \in shutdown' : conn'[p] = "closed" \/ HasClose(tasks'[s], p)
             /\ phase'[s] = "returned" => closeDone'
  <2>1. phase'[s] = phase[s] /\ (phase[s] = "idle" => tasks'[s] = <<>>) BY DEF CloserStep
  <2>2. phase[s] = "closing" =>
          closed /\ \A p \in shutdown : conn[p] = "closed" \/ HasClose(tasks[s], p)
    BY DEF Inv, Batch
  <2>3. \A p \in shutdown : HasClose(tasks[s], p) => HasClose(tasks'[s], p) \/ conn'[p] = "closed"
    BY <1>2 DEF TaskStep
  <2>4. phase[s] = "returned" => closeDone BY DEF Inv, Batch
  <2> QED BY <1>2, <1>4, <2>1, <2>2, <2>3, <2>4 DEF CloserStep
<1> QED BY <1>1, <1>3, <1>5, <1>6 DEF Batch

StepOK ==
  /\ Typed' /\ JoinShape'
  /\ RoomsStep /\ ConnStep /\ MemberStep /\ TaskStep /\ CloserStep /\ TimerStep

LEMMA StepKeeps == ASSUME Inv, StepOK PROVE Inv'
  BY Steps, BatchKept DEF StepOK, Inv

-----------------------------------------------------------------------------
(* The tasks after a step.                                                 *)
LEMMA Started ==
  ASSUME Typed, NEW g \in Goroutines, Idle(g), NEW ts \in Seq(Task), Start(g, ts)
  PROVE  /\ tasks' \in [Goroutines -> Seq(Task)] /\ tasks'[g] = ts /\ Elems(tasks[g]) = {}
         /\ \A h \in Goroutines : h # g => tasks'[h] = tasks[h]
  BY ElemsNone DEF Typed, Idle, Start

LEMMA Replaced ==
  ASSUME Typed, NEW g \in Goroutines, tasks[g] # <<>>, NEW ts \in Seq(Task), Replace(g, ts)
  PROVE  /\ tasks' \in [Goroutines -> Seq(Task)] /\ tasks'[g] = ts \o Tail(tasks[g])
         /\ Elems(tasks'[g]) = Elems(ts) \cup Elems(Tail(tasks[g]))
         /\ \A h \in Goroutines : h # g => tasks'[h] = tasks[h]
         /\ Head(tasks[g]) \in Task /\ Elems(tasks[g]) = {Head(tasks[g])} \cup Elems(Tail(tasks[g]))
<1>1. tasks[g] \in Seq(Task) BY DEF Typed
<1>2. /\ Head(tasks[g]) \in Task /\ Tail(tasks[g]) \in Seq(Task)
      /\ Elems(tasks[g]) = {Head(tasks[g])} \cup Elems(Tail(tasks[g]))
  BY <1>1, ElemsHeadTail
<1>3. /\ ts \o Tail(tasks[g]) \in Seq(Task)
      /\ Elems(ts \o Tail(tasks[g])) = Elems(ts) \cup Elems(Tail(tasks[g]))
  BY <1>2, ElemsConcat
<1>4. /\ tasks' \in [Goroutines -> Seq(Task)] /\ tasks'[g] = ts \o Tail(tasks[g])
      /\ \A h \in Goroutines : h # g => tasks'[h] = tasks[h]
  BY <1>3 DEF Replace, Typed
<1> QED BY <1>2, <1>3, <1>4

LEMMA TasksStarted ==
  ASSUME Inv, NEW g \in Goroutines, Idle(g), NEW ts \in Seq(Task), Start(g, ts),
         \A x \in Elems(ts) : Grounded(x)'
  PROVE  TaskStep
<1>1. /\ tasks'[g] = ts /\ Elems(tasks[g]) = {}
      /\ \A h \in Goroutines : h # g => tasks'[h] = tasks[h]
  BY Started DEF Inv
<1> QED BY <1>1, InGoroutines DEF TaskStep, HasClose, HasLeave

LEMMA TasksReplaced ==
  ASSUME Inv, NEW g \in Goroutines, tasks[g] # <<>>, Head(tasks[g]).op \notin {"close", "leave"},
         NEW ts \in Seq(Task), Replace(g, ts), \A x \in Elems(ts) : Grounded(x)'
  PROVE  TaskStep
<1>1. /\ Elems(tasks'[g]) = Elems(ts) \cup Elems(Tail(tasks[g]))
      /\ Elems(tasks[g]) = {Head(tasks[g])} \cup Elems(Tail(tasks[g]))
      /\ \A h \in Goroutines : h # g => tasks'[h] = tasks[h]
  BY Replaced DEF Inv
<1> DEFINE rest == Elems(Tail(tasks[g]))
           head == Head(tasks[g])
<1> HIDE DEF rest, head
<1>2. /\ Elems(tasks'[g]) = Elems(ts) \cup rest /\ Elems(tasks[g]) = {head} \cup rest
      /\ head.op \notin {"close", "leave"}
  BY <1>1 DEF rest, head
<1>3. \A p \in Conns : HasClose(tasks[g], p) => HasClose(tasks'[g], p) BY <1>2 DEF HasClose
<1>4. \A id, p : HasLeave(tasks[g], id, p) => HasLeave(tasks'[g], id, p) BY <1>2 DEF HasLeave
<1> QED BY <1>1, <1>2, <1>3, <1>4, InGoroutines DEF TaskStep

(* A handler that has a Join to finish runs nothing else.                  *)
LEMMA Pair == ASSUME NEW a, NEW b PROVE <<a>> \o <<b>> = <<a, b>>
<1> DEFINE s == <<a>> \o <<b>>
           t == <<a, b>>
<1>1. s \in Seq({a, b}) /\ t \in Seq({a, b}) /\ Len(s) = 2 /\ Len(t) = 2 OBVIOUS
<1>2. s[1] = a /\ s[2] = b /\ t[1] = a /\ t[2] = b OBVIOUS
<1>3. \A i \in 1 .. Len(s) : s[i] = t[i] BY <1>1, <1>2
<1> HIDE DEF s, t
<1>4. s = t BY <1>1, <1>3, SeqEqual
<1> QED BY <1>4 DEF s, t
LEMMA JoiningTasks ==
  ASSUME Inv, NEW c \in Conns, phase[c] = "joining"
  PROVE  \/ \E ps \in SUBSET Conns, ex \in SUBSET Conns :
              /\ ps # {}
              /\ tasks[c] = <<[op |-> "close", peers |-> ps], [op |-> "joined", existing |-> ex]>>
         \/ \E ex \in SUBSET Conns : tasks[c] = <<[op |-> "joined", existing |-> ex]>>
<1>1. PICK ps \in SUBSET Conns, ex \in SUBSET Conns :
        tasks[c] = closePeers(ps) \o <<[op |-> "joined", existing |-> ex]>>
  BY DEF Inv, JoinShape, JoinTasks
<1>2. CASE ps = {}
  <2>1. tasks[c] = <<[op |-> "joined", existing |-> ex]>> BY <1>1, <1>2 DEF closePeers
  <2> QED BY <2>1
<1>3. CASE ps # {}
  <2> DEFINE a == [op |-> "close", peers |-> ps]
             b == [op |-> "joined", existing |-> ex]
  <2>2. tasks[c] = <<a>> \o <<b>> BY <1>1, <1>3 DEF closePeers
  <2>1. tasks[c] = <<a, b>>
    <3> HIDE DEF a, b
    <3> QED BY <2>2, Pair
  <2> QED BY <2>1, <1>3
<1> QED BY <1>2, <1>3

LEMMA JoiningHead ==
  ASSUME Inv, NEW c \in Conns, phase[c] = "joining"
  PROVE  /\ tasks[c] # <<>> /\ Head(tasks[c]).op \in {"close", "joined"}
         /\ Head(tasks[c]).op = "joined" => Tail(tasks[c]) = <<>>
         /\ Head(tasks[c]).op = "close" =>
              \E ex \in SUBSET Conns : Tail(tasks[c]) = <<[op |-> "joined", existing |-> ex]>>
<1>1. CASE \E ps \in SUBSET Conns, ex \in SUBSET Conns :
             /\ ps # {}
             /\ tasks[c] = <<[op |-> "close", peers |-> ps], [op |-> "joined", existing |-> ex]>>
  BY <1>1
<1>2. CASE \E ex \in SUBSET Conns : tasks[c] = <<[op |-> "joined", existing |-> ex]>>
  BY <1>2
<1> QED BY <1>1, <1>2, JoiningTasks

LEMMA ShapeReplaced ==
  ASSUME Inv, NEW g \in Goroutines, tasks[g] # <<>>, Head(tasks[g]).op \notin {"close", "joined"},
         NEW ts \in Seq(Task), Replace(g, ts), \A x \in Elems(ts) : x.op # "joined", phase' = phase
  PROVE  JoinShape'
<1>1. /\ Elems(tasks'[g]) = Elems(ts) \cup Elems(Tail(tasks[g]))
      /\ Elems(tasks[g]) = {Head(tasks[g])} \cup Elems(Tail(tasks[g]))
      /\ \A h \in Goroutines : h # g => tasks'[h] = tasks[h]
  BY Replaced DEF Inv
<1>2. g \in Conns => phase[g] # "joining" BY JoiningHead
<1> SUFFICES ASSUME NEW c \in Conns
             PROVE  /\ phase'[c] = "joining" => JoinTasks(tasks'[c])
                    /\ phase'[c] # "joining" => \A x \in Elems(tasks'[c]) : x.op # "joined"
  BY DEF JoinShape
<1>3. CASE c # g BY <1>1, <1>3, InGoroutines DEF Inv, JoinShape
<1>4. CASE c = g
  <2>1. \A x \in Elems(tasks[g]) : x.op # "joined" BY <1>2, <1>4 DEF Inv, JoinShape
  <2> QED BY <1>1, <1>2, <1>4, <2>1
<1> QED BY <1>3, <1>4

(* The goroutines of Close are out of the way of every other step.         *)
LEMMA ClosersApart ==
  ASSUME Inv, NEW g \in Goroutines, g \notin Closers \/ tasks[g] # <<>>,
         \A h \in Goroutines : h # g => tasks'[h] = tasks[h],
         \A s \in Closers : phase'[s] = phase[s],
         closed' = closed, closeDone' = closeDone, shutdown' = shutdown,
         closed => rooms' = rooms \/ DOMAIN rooms' \subseteq DOMAIN rooms
  PROVE  CloserStep
<1>1. ASSUME NEW s \in Closers, phase[s] = "idle" PROVE tasks'[s] = <<>>
  BY <1>1, InGoroutines DEF Inv, Batch
<1> QED BY <1>1 DEF CloserStep

(* A step that pruned: the peers of the removed rooms are in its batch.    *)
LEMMA PrunedMembers ==
  ASSUME Inv, NEW t \in SampledNow, NEW g \in Goroutines, detached' = detached,
         \A x \in Elems(closePeers(ExpiredPeers(t))) : x \in Elems(tasks'[g]),
         \A id \in DOMAIN pruneExpiredLocked(t) : \A q \in rooms[id].peers :
           Inside(rooms', q) \/ phase'[q] = "leaving" \/ q \in failedSend'
  PROVE  MemberStep
<1>1. /\ DOMAIN pruneExpiredLocked(t) \subseteq DOMAIN rooms
      /\ \A id \in DOMAIN rooms \ DOMAIN pruneExpiredLocked(t) : rooms[id].peers \subseteq ExpiredPeers(t)
      /\ ExpiredPeers(t) \in SUBSET Conns
  BY Pruned DEF Inv, Typed
<1>2. ASSUME NEW q \in ExpiredPeers(t) PROVE HasClose(tasks'[g], q)
  <2> DEFINE x == [op |-> "close", peers |-> ExpiredPeers(t)]
  <2>1. x \in Elems(closePeers(ExpiredPeers(t))) BY <1>1, <1>2, CloseTask
  <2>2. x.op = "close" /\ q \in x.peers BY <1>2
  <2> HIDE DEF x
  <2> QED BY <2>1, <2>2 DEF HasClose
<1>3. ASSUME NEW c \in Conns, Inside(rooms, c)
      PROVE  Inside(rooms', c) \/ Closing(c)' \/ phase'[c] = "leaving" \/ c \in failedSend'
  <2>1. PICK id \in DOMAIN rooms : c \in rooms[id].peers BY <1>3 DEF Inside
  <2>2. CASE id \in DOMAIN pruneExpiredLocked(t) BY <2>1, <2>2
  <2>3. CASE id \notin DOMAIN pruneExpiredLocked(t)
    <3>1. HasClose(tasks'[g], c) BY <1>1, <1>2, <2>1, <2>3
    <3> QED BY <3>1 DEF Closing
  <2> QED BY <2>2, <2>3
<1> QED BY <1>3 DEF MemberStep

(* A step that only pruned.                                                *)
LEMMA OnlyPruned ==
  ASSUME Inv, NEW t \in SampledNow, NEW g \in Goroutines, detached' = detached, created' = created,
         rooms' = pruneExpiredLocked(t),
         \A x \in Elems(closePeers(ExpiredPeers(t))) : x \in Elems(tasks'[g])
  PROVE  MemberStep /\ RoomsStep /\ RoomsOK(rooms') /\ DOMAIN rooms' \subseteq DOMAIN rooms
<1>1. /\ RoomsOK(rooms') /\ DOMAIN rooms' \subseteq DOMAIN rooms
      /\ \A id \in DOMAIN rooms' : rooms'[id] = rooms[id]
  BY Pruned DEF Inv, Typed
<1>2. \A id \in DOMAIN rooms' : \A q \in rooms[id].peers : Inside(rooms', q)
  BY <1>1 DEF Inside
<1>3. MemberStep BY <1>2, PrunedMembers
<1>4. RoomsStep BY <1>1 DEF RoomsStep, SameRoom
<1> QED BY <1>1, <1>3, <1>4

LEMMA RoomsSame ==
  ASSUME Inv, rooms' = rooms, created' = created
  PROVE  /\ RoomsStep /\ RoomsOK(rooms')
         /\ (\A c \in detached : c \in detached' \/ conn'[c] = "closed") => MemberStep
  BY DEF RoomsStep, SameRoom, MemberStep, Inv, Typed

(* Steps that do not touch a connection's handler, nor the timers.         *)
LEMMA ConnsSame ==
  ASSUME Inv, UNCHANGED <<conn, phase, roomOf>>, failedSend \subseteq failedSend'
  PROVE  ConnStep
  BY DEF ConnStep, Inv, AtHome, Attending
LEMMA TimersSame ==
  ASSUME Inv, now' = now, callbacks' = callbacks PROVE TimerStep
  BY DEF TimerStep, Inv, Typed, Time

(* Tasks that make nobody leave.                                           *)
Harmless(x) == x.op \in {"close", "broadcast", "count"} \/ (x.op = "send" /\ x.failed = {})
LEMMA HarmlessGrounded ==
  ASSUME NEW x, Harmless(x) PROVE Grounded(x)' /\ x.op # "joined" /\ x.op # "leave"
  BY DEF Harmless, Grounded

(* The batch of a prune, then the rest.                                    *)
LEMMA PruneTasks ==
  ASSUME Inv, NEW t \in SampledNow, NEW rest \in Seq(Task)
  PROVE  LET ts == closePeers(ExpiredPeers(t)) \o rest IN
         /\ closePeers(ExpiredPeers(t)) \in Seq(Task) /\ ts \in Seq(Task)
         /\ Elems(ts) = Elems(closePeers(ExpiredPeers(t))) \cup Elems(rest)
         /\ \A x \in Elems(closePeers(ExpiredPeers(t))) : x.op = "close"
<1>1. ExpiredPeers(t) \in SUBSET Conns BY Pruned DEF Inv, Typed
<1>2. /\ closePeers(ExpiredPeers(t)) \in Seq(Task)
      /\ \A x \in Elems(closePeers(ExpiredPeers(t))) : x = [op |-> "close", peers |-> ExpiredPeers(t)]
  BY <1>1, CloseTask
<1> QED BY <1>2, ElemsConcat

-----------------------------------------------------------------------------
(* The requests.                                                           *)
LEMMA RequestShape ==
  ASSUME Inv, NEW g \in Requests, phase' = phase,
         \A h \in Goroutines : h # g => tasks'[h] = tasks[h]
  PROVE  JoinShape' /\ g \notin Closers /\ g \in Goroutines
<1>1. \A c \in Conns : tasks'[c] = tasks[c] BY P2PAssumption, InGoroutines
<1> QED BY <1>1, P2PAssumption, InGoroutines DEF Inv, JoinShape

LEMMA NewRoomOK ==
  ASSUME Typed, NEW t \in SampledNow, created < MaxCreates, now + RoomTTL <= MaxTime
  PROVE  /\ NewRoom(t) \in RoomState /\ NewRoom(t).peers = {} /\ NewRoom(t).inc = created + 1
         /\ NewRoom(t).expiresAt <= NewRoom(t).expiryAt
<1>1. /\ t \in Nat /\ t <= now /\ now \in Nat /\ created \in Nat /\ MaxCreates \in Nat /\ RoomTTL \in Nat
      /\ now \in Time
  BY P2PAssumption DEF SampledNow, Time, Typed
<1>2. {} \in {ps \in SUBSET Conns : Cardinality(ps) <= MaxPeers} BY FS_EmptySet, P2PAssumption
<1>3. created + 1 \in 1 .. MaxCreates /\ t + RoomTTL \in Nat /\ now + RoomTTL \in Nat
      /\ t + RoomTTL <= now + RoomTTL
  BY <1>1
<1> QED BY <1>1, <1>2, <1>3 DEF NewRoom, RoomState

LEMMA CreateStep == ASSUME Inv, NEW g \in Requests, Create(g) PROVE StepOK
<1>1. PICK t \in SampledNow, id \in RoomIds :
        /\ Cardinality(DOMAIN pruneExpiredLocked(t)) < MaxRooms
        /\ id \notin DOMAIN pruneExpiredLocked(t)
        /\ rooms' = [r \in DOMAIN pruneExpiredLocked(t) \cup {id} |->
                       IF r = id THEN NewRoom(t) ELSE rooms[r]]
        /\ Start(g, closePeers(ExpiredPeers(t)) \o roomCount)
  BY DEF Create
<1>2. /\ Idle(g) /\ ~closed /\ created < MaxCreates /\ now + RoomTTL <= MaxTime
      /\ created' = created + 1
      /\ UNCHANGED <<closed, closeDone, callbacks, detached, conn, phase, roomOf, now, failedSend, shutdown>>
  BY DEF Create, history
<1> DEFINE rs == pruneExpiredLocked(t)
           ts == closePeers(ExpiredPeers(t)) \o roomCount
<1>3. /\ ts \in Seq(Task)
      /\ Elems(ts) = Elems(closePeers(ExpiredPeers(t))) \cup Elems(roomCount)
      /\ \A x \in Elems(closePeers(ExpiredPeers(t))) : x.op = "close"
  BY PruneTasks, CountTask
<1>4. \A x \in Elems(ts) : Harmless(x) BY <1>3, CountTask DEF Harmless
<1>5. Start(g, ts) BY <1>1
<1> HIDE DEF ts
<1>6. g \in Goroutines BY InGoroutines
<1>7. /\ tasks' \in [Goroutines -> Seq(Task)] /\ tasks'[g] = ts
      /\ \A h \in Goroutines : h # g => tasks'[h] = tasks[h]
  BY <1>2, <1>3, <1>5, <1>6, Started DEF Inv
<1>8. JoinShape' /\ g \notin Closers BY <1>2, <1>7, RequestShape
<1>9. TaskStep BY <1>2, <1>3, <1>4, <1>5, <1>6, TasksStarted, HarmlessGrounded
<1>10. /\ RoomsOK(rs) /\ DOMAIN rs \subseteq DOMAIN rooms
       /\ \A x \in DOMAIN rs : rs[x] = rooms[x]
  BY Pruned DEF Inv, Typed
<1>11. /\ NewRoom(t) \in RoomState /\ NewRoom(t).peers = {} /\ NewRoom(t).inc = created + 1
       /\ NewRoom(t).expiresAt <= NewRoom(t).expiryAt
  BY <1>2, NewRoomOK DEF Inv
<1>12. rooms' = [x \in DOMAIN rs \cup {id} |-> IF x = id THEN NewRoom(t) ELSE rs[x]] BY <1>1, <1>10
<1> DEFINE new == NewRoom(t)
<1> HIDE DEF rs, new
<1>13. /\ RoomsOK(rooms') /\ DOMAIN rooms' = DOMAIN rs \cup {id} /\ rooms'[id] = new
       /\ \A x \in DOMAIN rs : rooms'[x] = rs[x]
  <2>1. rooms' = [x \in DOMAIN rs \cup {id} |-> IF x = id THEN new ELSE rs[x]] BY <1>12 DEF new
  <2>2. new \in RoomState /\ new.peers = {} BY <1>11 DEF new
  <2>3. id \notin DOMAIN rs /\ Cardinality(DOMAIN rs) < MaxRooms BY <1>1 DEF rs
  <2> QED BY <1>10, <2>1, <2>2, <2>3, CreatedRooms
<1>14. RoomsStep
  <2>1. ASSUME NEW x \in DOMAIN rooms', x # id
        PROVE  x \in DOMAIN rooms /\ rooms'[x] = rooms[x]
    BY <2>1, <1>10, <1>13
  <2>2. rooms'[id].peers = {} /\ rooms'[id].inc = created + 1 /\ rooms'[id].expiresAt <= rooms'[id].expiryAt
    BY <1>11, <1>13 DEF new
  <2> QED BY <1>2, <2>1, <2>2 DEF RoomsStep, SameRoom
<1>15. MemberStep
  <2>1. \A x \in DOMAIN rs : \A q \in rooms[x].peers : Inside(rooms', q) BY <1>10, <1>13 DEF Inside
  <2> QED BY <1>2, <1>3, <1>6, <1>7, <2>1, PrunedMembers DEF rs
<1>16. CloserStep BY <1>2, <1>6, <1>7, <1>8, ClosersApart
<1>17. ConnStep BY <1>2, ConnsSame
<1>18. TimerStep BY <1>2, TimersSame
<1>19. Typed'
  <2>1. created' \in 0 .. MaxCreates BY <1>2, P2PAssumption DEF Inv, Typed
  <2> QED BY <1>2, <1>7, <1>13, <2>1 DEF Inv, Typed
<1> QED BY <1>8, <1>9, <1>14, <1>15, <1>16, <1>17, <1>18, <1>19 DEF StepOK

(* A step that prunes and does nothing else to the manager, with the batch *)
(* of the prune among the tasks of the goroutine that made it.             *)
LEMMA PruneStep ==
  ASSUME Inv, NEW g \in Goroutines, NEW t \in SampledNow,
         tasks' \in [Goroutines -> Seq(Task)],
         g \notin Closers \/ tasks[g] # <<>>,
         \A h \in Goroutines : h # g => tasks'[h] = tasks[h],
         \A x \in Elems(closePeers(ExpiredPeers(t))) : x \in Elems(tasks'[g]),
         rooms' = pruneExpiredLocked(t), TaskStep, JoinShape',
         UNCHANGED <<closed, closeDone, callbacks, detached, conn, phase, roomOf, now, created,
                     failedSend, shutdown>>
  PROVE  StepOK
<1>1. MemberStep /\ RoomsStep /\ RoomsOK(rooms') /\ DOMAIN rooms' \subseteq DOMAIN rooms
  BY OnlyPruned
<1>2. CloserStep BY <1>1, ClosersApart
<1>3. ConnStep BY ConnsSame
<1>4. TimerStep BY TimersSame
<1>5. Typed' BY <1>1 DEF Inv, Typed
<1> QED BY <1>1, <1>2, <1>3, <1>4, <1>5 DEF StepOK

LEMMA StatusStep == ASSUME Inv, NEW g \in Requests, Status(g) PROVE StepOK
<1>1. PICK t \in SampledNow : rooms' = pruneExpiredLocked(t) /\ Start(g, closePeers(ExpiredPeers(t)))
  BY DEF Status
<1>2. /\ Idle(g)
      /\ UNCHANGED <<closed, closeDone, callbacks, detached, conn, phase, roomOf, now, created, failedSend, shutdown>>
  BY DEF Status, history
<1> DEFINE ts == closePeers(ExpiredPeers(t))
<1>3. ts \in Seq(Task) /\ \A x \in Elems(ts) : x.op = "close" BY PruneTasks, ElemsNone
<1>4. \A x \in Elems(ts) : Harmless(x) BY <1>3 DEF Harmless
<1>5. Start(g, ts) BY <1>1
<1>6. g \in Goroutines BY InGoroutines
<1> HIDE DEF ts
<1>7. /\ tasks' \in [Goroutines -> Seq(Task)] /\ tasks'[g] = ts
      /\ \A h \in Goroutines : h # g => tasks'[h] = tasks[h]
  BY <1>2, <1>3, <1>5, <1>6, Started DEF Inv
<1>8. JoinShape' /\ g \notin Closers BY <1>2, <1>7, RequestShape
<1>9. TaskStep BY <1>2, <1>3, <1>4, <1>5, <1>6, TasksStarted, HarmlessGrounded
<1>10. \A x \in Elems(closePeers(ExpiredPeers(t))) : x \in Elems(tasks'[g]) BY <1>7 DEF ts
<1> QED BY <1>1, <1>2, <1>6, <1>7, <1>8, <1>9, <1>10, PruneStep

LEMMA RoomCountStep == ASSUME Inv, NEW g \in Goroutines, RoomCount(g) PROVE StepOK
<1>1. PICK t \in SampledNow : rooms' = pruneExpiredLocked(t) /\ Replace(g, closePeers(ExpiredPeers(t)))
  BY DEF RoomCount
<1>2. /\ tasks[g] # <<>> /\ Head(tasks[g]).op = "count"
      /\ UNCHANGED <<closed, closeDone, callbacks, detached, conn, phase, roomOf, now, created, failedSend, shutdown>>
  BY DEF RoomCount, Current, history
<1> DEFINE ts == closePeers(ExpiredPeers(t))
<1>3. ts \in Seq(Task) /\ \A x \in Elems(ts) : x.op = "close" BY PruneTasks, ElemsNone
<1>4. \A x \in Elems(ts) : Harmless(x) BY <1>3 DEF Harmless
<1>5. Replace(g, ts) BY <1>1
<1> HIDE DEF ts
<1>6. /\ tasks' \in [Goroutines -> Seq(Task)]
      /\ Elems(tasks'[g]) = Elems(ts) \cup Elems(Tail(tasks[g]))
      /\ \A h \in Goroutines : h # g => tasks'[h] = tasks[h]
  BY <1>2, <1>3, <1>5, Replaced DEF Inv
<1>7. TaskStep BY <1>2, <1>3, <1>4, <1>5, TasksReplaced, HarmlessGrounded
<1>8. JoinShape' BY <1>2, <1>3, <1>4, <1>5, ShapeReplaced, HarmlessGrounded
<1>9. \A x \in Elems(closePeers(ExpiredPeers(t))) : x \in Elems(tasks'[g]) BY <1>6 DEF ts
<1> QED BY <1>1, <1>2, <1>6, <1>7, <1>8, <1>9, PruneStep

-----------------------------------------------------------------------------
(* The handler of a connection.                                            *)
LEMMA HandlerShape ==
  ASSUME Inv, NEW c \in Conns,
         \A h \in Goroutines : h # c => tasks'[h] = tasks[h] /\ phase'[h] = phase[h],
         phase'[c] = "joining" => JoinTasks(tasks'[c]),
         phase'[c] # "joining" => \A x \in Elems(tasks'[c]) : x.op # "joined"
  PROVE  JoinShape' /\ c \notin Closers /\ c \in Goroutines /\ \A s \in Closers : phase'[s] = phase[s]
<1>1. c \notin Closers /\ c \in Goroutines /\ Closers \subseteq Goroutines /\ Conns \subseteq Goroutines
  BY P2PAssumption, InGoroutines
<1>2. ASSUME NEW d \in Conns
      PROVE  /\ phase'[d] = "joining" => JoinTasks(tasks'[d])
             /\ phase'[d] # "joining" => \A x \in Elems(tasks'[d]) : x.op # "joined"
  <2>1. CASE d = c BY <2>1
  <2>2. CASE d # c BY <1>1, <2>2 DEF Inv, JoinShape
  <2> QED BY <2>1, <2>2
<1> QED BY <1>1, <1>2 DEF JoinShape

LEMMA AcceptedConn ==
  ASSUME Inv, NEW c \in Conns, NEW id \in RoomIds, Accepted(c, id),
         NEW ph \in {"joining", "leaving"}, phase' = [phase EXCEPT ![c] = ph]
  PROVE  /\ phase[c] = "idle" /\ Idle(c) /\ ~Inside(rooms, c) /\ phase'[c] = ph /\ roomOf'[c] = id
         /\ UNCHANGED <<closed, closeDone, callbacks, detached, now, created, failedSend, shutdown>>
         /\ conn' \in [Conns -> {"none", "open", "closed"}]
         /\ phase' \in [Goroutines -> {"idle", "joining", "reading", "leaving", "closing", "returned"}]
         /\ roomOf' \in [Conns -> RoomIds \cup {NoRoom}]
         /\ \A h \in Goroutines : h # c => phase'[h] = phase[h]
         /\ (ph = "joining" /\ Inside(rooms', c)) \/ (ph = "leaving" /\ ~Inside(rooms', c)) => ConnStep
         /\ TimerStep
<1>1. /\ phase[c] = "idle" /\ Idle(c)
      /\ conn' = [conn EXCEPT ![c] = "open"] /\ roomOf' = [roomOf EXCEPT ![c] = id]
      /\ UNCHANGED <<closed, closeDone, callbacks, detached, now, created, failedSend, shutdown>>
  BY DEF Accepted, history
<1>2. ~Inside(rooms, c) BY <1>1 DEF Inside, Inv, AtHome
<1>3. /\ conn' \in [Conns -> {"none", "open", "closed"}]
      /\ phase' \in [Goroutines -> {"idle", "joining", "reading", "leaving", "closing", "returned"}]
      /\ roomOf' \in [Conns -> RoomIds \cup {NoRoom}]
      /\ phase'[c] = ph /\ roomOf'[c] = id
      /\ \A h \in Goroutines : h # c => phase'[h] = phase[h]
      /\ \A h \in Conns : h # c => roomOf'[h] = roomOf[h] /\ conn'[h] = conn[h]
  BY <1>1, InGoroutines DEF Inv, Typed
<1>4. TimerStep BY <1>1, TimersSame
<1>5. ASSUME (ph = "joining" /\ Inside(rooms', c)) \/ (ph = "leaving" /\ ~Inside(rooms', c))
      PROVE  ConnStep
  <2>1. ASSUME NEW d \in Conns, d # c
        PROVE  phase'[d] = phase[d] /\ roomOf'[d] = roomOf[d] /\ conn'[d] = conn[d]
               /\ (phase[d] # "idle" => roomOf[d] \in RoomIds)
    BY <1>3, <2>1, InGoroutines DEF Inv, AtHome
  <2> QED BY <1>1, <1>3, <1>5, <2>1 DEF ConnStep, Attending
<1> QED BY <1>1, <1>2, <1>3, <1>4, <1>5

(* The handler's start of a list of tasks, those of a pruning Join among   *)
(* them.                                                                   *)
LEMMA JoinRefusedStep ==
  ASSUME Inv, NEW c \in Conns, NEW id \in RoomIds, JoinRefused(c, id) PROVE StepOK
<1>1. Accepted(c, id) /\ phase' = [phase EXCEPT ![c] = "leaving"] BY DEF JoinRefused
<1>2. /\ phase[c] = "idle" /\ Idle(c) /\ ~Inside(rooms, c) /\ phase'[c] = "leaving"
      /\ UNCHANGED <<closed, closeDone, callbacks, detached, now, created, failedSend, shutdown>>
      /\ conn' \in [Conns -> {"none", "open", "closed"}]
      /\ phase' \in [Goroutines -> {"idle", "joining", "reading", "leaving", "closing", "returned"}]
      /\ roomOf' \in [Conns -> RoomIds \cup {NoRoom}]
      /\ \A h \in Goroutines : h # c => phase'[h] = phase[h]
      /\ ~Inside(rooms', c) => ConnStep
      /\ TimerStep
  BY <1>1, AcceptedConn
<1>3. c \in Goroutines /\ {c} \in SUBSET Conns BY InGoroutines
<1>4. closePeers({c}) \in Seq(Task) /\ \A x \in Elems(closePeers({c})) : x.op = "close"
  BY CloseOne
<1>5. ASSUME NEW ts \in Seq(Task), Start(c, ts), \A x \in Elems(ts) : x.op = "close",
             RoomsOK(rooms'), DOMAIN rooms' \subseteq DOMAIN rooms,
             \A x \in DOMAIN rooms' : rooms'[x] = rooms[x], RoomsStep, MemberStep
      PROVE  StepOK
  <2>1. \A x \in Elems(ts) : Harmless(x) BY <1>5 DEF Harmless
  <2>2. TaskStep BY <1>2, <1>3, <1>5, <2>1, TasksStarted, HarmlessGrounded
  <2>3. /\ tasks' \in [Goroutines -> Seq(Task)] /\ tasks'[c] = ts
        /\ \A h \in Goroutines : h # c => tasks'[h] = tasks[h]
    BY <1>2, <1>3, <1>5, Started DEF Inv
  <2>4. JoinShape' /\ c \notin Closers /\ \A s \in Closers : phase'[s] = phase[s]
    BY <1>2, <2>1, <2>3, HandlerShape, HarmlessGrounded
  <2>5. CloserStep BY <1>2, <1>3, <1>5, <2>3, <2>4, ClosersApart
  <2>6. ~Inside(rooms', c) BY <1>2, <1>5 DEF Inside
  <2>7. Typed' BY <1>2, <1>5, <2>3 DEF Inv, Typed
  <2> QED BY <1>2, <1>5, <2>2, <2>4, <2>5, <2>6, <2>7 DEF StepOK
<1>6. CASE rooms' = rooms /\ Start(c, closePeers({c}))
  <2>1. RoomsOK(rooms') /\ RoomsStep /\ MemberStep BY <1>2, <1>6, RoomsSame
  <2> QED BY <1>4, <1>5, <1>6, <2>1
<1>7. ASSUME NEW t \in SampledNow, rooms' = pruneExpiredLocked(t),
             Start(c, closePeers(ExpiredPeers(t)) \o closePeers({c}))
      PROVE  StepOK
  <2> DEFINE ts == closePeers(ExpiredPeers(t)) \o closePeers({c})
  <2>1. /\ ts \in Seq(Task)
        /\ Elems(ts) = Elems(closePeers(ExpiredPeers(t))) \cup Elems(closePeers({c}))
        /\ \A x \in Elems(closePeers(ExpiredPeers(t))) : x.op = "close"
    BY <1>4, PruneTasks
  <2>2. Start(c, ts) BY <1>7
  <2> HIDE DEF ts
  <2>3. tasks'[c] = ts BY <1>2, <1>3, <2>1, <2>2, Started DEF Inv
  <2>4. MemberStep /\ RoomsStep BY <1>2, <1>3, <1>7, <2>1, <2>3, OnlyPruned
  <2>5. /\ RoomsOK(rooms') /\ DOMAIN rooms' \subseteq DOMAIN rooms
        /\ \A x \in DOMAIN rooms' : rooms'[x] = rooms[x]
    BY <1>7, Pruned DEF Inv, Typed
  <2> QED BY <1>4, <1>5, <2>1, <2>2, <2>4, <2>5
<1> QED BY <1>6, <1>7 DEF JoinRefused

(* Join that reached the room: rooms changed in place after the prune.     *)
JoinReaching(c, id, ph, t, ts) ==
  /\ Accepted(c, id) /\ ~closed
  /\ ph \in {"joining", "leaving"} /\ phase' = [phase EXCEPT ![c] = ph]
  /\ ts \in Seq(Task) /\ Start(c, ts)
  /\ \A x \in Elems(closePeers(ExpiredPeers(t))) : x \in Elems(ts)
  /\ \A x \in Elems(ts) : Harmless(x) \/ (ph = "joining" /\ x.op = "joined")
  /\ ph = "joining" => JoinTasks(ts)
  /\ RoomsOK(rooms') /\ DOMAIN rooms' = DOMAIN pruneExpiredLocked(t) /\ id \in DOMAIN rooms'
  /\ \A x \in DOMAIN rooms' :
       /\ SameRoom(rooms[x], rooms'[x])
       /\ rooms'[x].peers = rooms[x].peers \cup (IF ph = "joining" /\ x = id THEN {c} ELSE {})

LEMMA JoinReaches ==
  ASSUME Inv, NEW c \in Conns, NEW id \in RoomIds, NEW ph, NEW t \in SampledNow, NEW ts,
         JoinReaching(c, id, ph, t, ts)
  PROVE  StepOK
<1> USE DEF JoinReaching
<1>1. /\ phase[c] = "idle" /\ Idle(c) /\ ~Inside(rooms, c) /\ phase'[c] = ph /\ roomOf'[c] = id
      /\ UNCHANGED <<closed, closeDone, callbacks, detached, now, created, failedSend, shutdown>>
      /\ conn' \in [Conns -> {"none", "open", "closed"}]
      /\ phase' \in [Goroutines -> {"idle", "joining", "reading", "leaving", "closing", "returned"}]
      /\ roomOf' \in [Conns -> RoomIds \cup {NoRoom}]
      /\ \A h \in Goroutines : h # c => phase'[h] = phase[h]
      /\ (ph = "joining" /\ Inside(rooms', c)) \/ (ph = "leaving" /\ ~Inside(rooms', c)) => ConnStep
      /\ TimerStep
  BY AcceptedConn
<1>2. c \in Goroutines BY InGoroutines
<1>3. /\ tasks' \in [Goroutines -> Seq(Task)] /\ tasks'[c] = ts
      /\ \A h \in Goroutines : h # c => tasks'[h] = tasks[h]
  BY <1>1, <1>2, Started DEF Inv
<1>4. TaskStep
  <2>1. \A x \in Elems(ts) : Grounded(x)' BY HarmlessGrounded DEF Grounded
  <2> QED BY <1>1, <1>2, <2>1, TasksStarted
<1>5. JoinShape' /\ c \notin Closers /\ \A s \in Closers : phase'[s] = phase[s]
  <2>1. ph # "joining" => \A x \in Elems(ts) : x.op # "joined" BY HarmlessGrounded
  <2> QED BY <1>1, <1>3, <2>1, HandlerShape
<1>6. CloserStep BY <1>1, <1>2, <1>3, <1>5, ClosersApart
<1>7. DOMAIN rooms' \subseteq DOMAIN rooms BY Pruned DEF Inv, Typed
<1>8. RoomsStep BY <1>1, <1>7 DEF RoomsStep
<1>9. MemberStep
  <2>1. \A x \in DOMAIN pruneExpiredLocked(t) : \A q \in rooms[x].peers : Inside(rooms', q)
    BY DEF Inside
  <2> QED BY <1>1, <1>2, <1>3, <2>1, PrunedMembers
<1>10. ConnStep
  <2>1. CASE ph = "joining"
    <3>1. Inside(rooms', c) BY <2>1 DEF Inside
    <3> QED BY <1>1, <2>1, <3>1
  <2>2. CASE ph = "leaving"
    <3>1. ~Inside(rooms', c) BY <1>1, <1>7, <2>2 DEF Inside
    <3> QED BY <1>1, <2>2, <3>1
  <2> QED BY <2>1, <2>2
<1>11. Typed' BY <1>1, <1>3 DEF Inv, Typed
<1> QED BY <1>1, <1>4, <1>5, <1>6, <1>8, <1>9, <1>10, <1>11 DEF StepOK

LEMMA JoinWithoutPeerIdStep ==
  ASSUME Inv, NEW c \in Conns, NEW id \in RoomIds, JoinWithoutPeerId(c, id) PROVE StepOK
<1>1. PICK t \in SampledNow :
        /\ HasSlot(pruneExpiredLocked(t), id)
        /\ rooms' = [pruneExpiredLocked(t) EXCEPT ![id].cleanupAt = Never]
        /\ Start(c, closePeers(ExpiredPeers(t)) \o closePeers({c}))
  BY DEF JoinWithoutPeerId
<1>2. Accepted(c, id) /\ ~closed /\ phase' = [phase EXCEPT ![c] = "leaving"] BY DEF JoinWithoutPeerId
<1> DEFINE rs == pruneExpiredLocked(t)
           ts == closePeers(ExpiredPeers(t)) \o closePeers({c})
<1>3. closePeers({c}) \in Seq(Task) /\ \A x \in Elems(closePeers({c})) : x.op = "close" BY CloseOne
<1>4. /\ ts \in Seq(Task)
      /\ Elems(ts) = Elems(closePeers(ExpiredPeers(t))) \cup Elems(closePeers({c}))
      /\ \A x \in Elems(closePeers(ExpiredPeers(t))) : x.op = "close"
  BY <1>3, PruneTasks
<1>5. \A x \in Elems(ts) : Harmless(x) BY <1>3, <1>4 DEF Harmless
<1>6. Start(c, ts) BY <1>1
<1>7. RoomsOK(rs) /\ \A x \in DOMAIN rs : rs[x] = rooms[x] BY Pruned DEF Inv, Typed
<1>8. rooms' = [rs EXCEPT ![id].cleanupAt = Never] /\ id \in DOMAIN rs BY <1>1 DEF HasSlot
<1>9. DOMAIN rs = DOMAIN pruneExpiredLocked(t) OBVIOUS
<1> HIDE DEF ts, rs
<1>10. /\ RoomsOK(rooms') /\ DOMAIN rooms' = DOMAIN rs
       /\ \A x \in DOMAIN rs : /\ rooms'[x].peers = rs[x].peers /\ rooms'[x].inc = rs[x].inc
                               /\ rooms'[x].expiresAt = rs[x].expiresAt
                               /\ rooms'[x].expiryAt \in {rs[x].expiryAt, Never}
  <2>1. "cleanupAt" \in {"cleanupAt", "expiryAt"} OBVIOUS
  <2> QED BY <1>7, <1>8, <2>1, Uncleaned
<1>11. \A x \in DOMAIN rooms' : SameRoom(rooms[x], rooms'[x]) /\ rooms'[x].peers = rooms[x].peers
  BY <1>7, <1>10 DEF SameRoom
<1>12. JoinReaching(c, id, "leaving", t, ts) BY <1>2, <1>4, <1>5, <1>6, <1>8, <1>9, <1>10, <1>11 DEF JoinReaching
<1> QED BY <1>12, JoinReaches

LEMMA JoinStep ==
  ASSUME Inv, NEW c \in Conns, NEW id \in RoomIds, Join(c, id) PROVE StepOK
<1>1. PICK t \in SampledNow :
        /\ HasSlot(pruneExpiredLocked(t), id)
        /\ rooms' = [pruneExpiredLocked(t) EXCEPT
                       ![id].cleanupAt = Never, ![id].peers = @ \cup {c}]
        /\ Start(c, closePeers(ExpiredPeers(t)) \o <<[op |-> "joined", existing |-> rooms[id].peers]>>)
  BY DEF Join
<1>2. Accepted(c, id) /\ ~closed /\ phase' = [phase EXCEPT ![c] = "joining"] BY DEF Join
<1> DEFINE rs == pruneExpiredLocked(t)
           j == <<[op |-> "joined", existing |-> rooms[id].peers]>>
           ts == closePeers(ExpiredPeers(t)) \o j
<1>3. /\ RoomsOK(rs) /\ DOMAIN rs \subseteq DOMAIN rooms /\ \A x \in DOMAIN rs : rs[x] = rooms[x]
      /\ ExpiredPeers(t) \in SUBSET Conns
  BY Pruned DEF Inv, Typed
<1>4. id \in DOMAIN rs BY <1>1 DEF HasSlot
<1>5. rooms[id].peers \in SUBSET Conns BY <1>3, <1>4, RoomFields DEF Inv, Typed, RoomsOK
<1>6. j \in Seq(Task) /\ \A x \in Elems(j) : x.op = "joined" BY <1>5, JoinedTask
<1>7. JoinTasks(ts) BY <1>3, <1>5 DEF JoinTasks
<1> HIDE DEF j
<1>8. /\ ts \in Seq(Task)
      /\ Elems(ts) = Elems(closePeers(ExpiredPeers(t))) \cup Elems(j)
      /\ \A x \in Elems(closePeers(ExpiredPeers(t))) : x.op = "close"
  BY <1>6, PruneTasks
<1>9. \A x \in Elems(ts) : Harmless(x) \/ x.op = "joined" BY <1>6, <1>8 DEF Harmless
<1>10. Start(c, ts) BY <1>1 DEF j
<1> DEFINE r0 == rs[id]
           r == [r0 EXCEPT !.cleanupAt = Never, !.peers = @ \cup {c}]
<1>11. /\ rooms' = [rs EXCEPT ![id] = r]
       /\ r0 \in RoomState /\ IsFiniteSet(r0.peers) /\ Cardinality(r0.peers) < MaxPeers
  <2>1. rooms' = [rs EXCEPT ![id] = r] BY <1>1, <1>4
  <2> QED BY <1>1, <1>3, <1>4, <2>1 DEF HasSlot, RoomsOK
<1>12. DOMAIN rs = DOMAIN pruneExpiredLocked(t) OBVIOUS
<1> HIDE DEF ts, rs, r0
<1>16. /\ r \in RoomState /\ IsFiniteSet(r.peers) /\ r.peers = r0.peers \cup {c}
       /\ r.inc = r0.inc /\ r.expiresAt = r0.expiresAt /\ r.expiryAt = r0.expiryAt
  BY <1>11, JoinedRoom
<1> HIDE DEF r
<1>13. /\ RoomsOK(rooms') /\ DOMAIN rooms' = DOMAIN rs
       /\ rooms'[id].peers = rs[id].peers \cup {c} /\ rooms'[id].inc = rs[id].inc
       /\ rooms'[id].expiresAt = rs[id].expiresAt /\ rooms'[id].expiryAt = rs[id].expiryAt
       /\ \A x \in DOMAIN rs : x # id => rooms'[x] = rs[x]
  <2>1. /\ RoomsOK(rooms') /\ DOMAIN rooms' = DOMAIN rs /\ rooms'[id] = r
        /\ \A x \in DOMAIN rs : x # id => rooms'[x] = rs[x]
    BY <1>3, <1>4, <1>11, <1>16, Changed
  <2> QED BY <1>16, <2>1 DEF r0
<1>14. \A x \in DOMAIN rooms' :
         /\ SameRoom(rooms[x], rooms'[x])
         /\ rooms'[x].peers = rooms[x].peers \cup (IF x = id THEN {c} ELSE {})
  BY <1>3, <1>13 DEF SameRoom
<1>15. JoinReaching(c, id, "joining", t, ts) BY <1>2, <1>4, <1>7, <1>8, <1>9, <1>10, <1>12, <1>13, <1>14 DEF JoinReaching
<1> QED BY <1>15, JoinReaches

(* A handler that starts to leave has its Leave among its tasks.           *)
LEMMA StartsLeaving ==
  ASSUME Inv, NEW c \in Conns, phase[c] # "idle", phase' = [phase EXCEPT ![c] = "leaving"],
         tasks' \in [Goroutines -> Seq(Task)],
         \A h \in Goroutines : h # c => tasks'[h] = tasks[h],
         HasLeave(tasks'[c], roomOf[c], c), \A x \in Elems(tasks'[c]) : x.op # "joined",
         TaskStep, failedSend \subseteq failedSend', failedSend' \subseteq Conns,
         UNCHANGED <<rooms, closed, closeDone, created, callbacks, detached, conn, roomOf, now, shutdown>>
  PROVE  StepOK
<1>1. /\ phase'[c] = "leaving" /\ \A h \in Goroutines : h # c => phase'[h] = phase[h]
      /\ phase' \in [Goroutines -> {"idle", "joining", "reading", "leaving", "closing", "returned"}]
  BY InGoroutines DEF Inv, Typed
<1>2. JoinShape' /\ c \notin Closers /\ c \in Goroutines /\ \A s \in Closers : phase'[s] = phase[s]
  BY <1>1, HandlerShape
<1>3. CloserStep BY <1>2, ClosersApart
<1>4. RoomsStep /\ RoomsOK(rooms') /\ MemberStep BY RoomsSame
<1>5. TimerStep BY TimersSame
<1>6. ConnStep
  <2>1. ASSUME NEW d \in Conns, d # c PROVE phase'[d] = phase[d] BY <1>1, <2>1, InGoroutines
  <2>2. \A d \in Conns : phase[d] # "idle" => roomOf[d] \in RoomIds BY DEF Inv, AtHome
  <2> QED BY <1>1, <2>1, <2>2 DEF ConnStep, Attending
<1>7. Typed' BY <1>1, <1>4 DEF Inv, Typed
<1> QED BY <1>2, <1>3, <1>4, <1>5, <1>6, <1>7 DEF StepOK

LEMMA OwnLeave ==
  ASSUME NEW id \in RoomIds, NEW c \in Conns, NEW im \in BOOLEAN
  PROVE  /\ leaveAll(id, {c}, im) \in Seq(Task)
         /\ HasLeave(leaveAll(id, {c}, im), id, c)
         /\ \A x \in Elems(leaveAll(id, {c}, im)) : x.op = "leave" /\ x.peers = {c}
<1> DEFINE x0 == [op |-> "leave", id |-> id, peers |-> {c}, immediate |-> im]
<1>1. /\ leaveAll(id, {c}, im) \in Seq(Task)
      /\ \A x \in Elems(leaveAll(id, {c}, im)) : x = x0
      /\ x0 \in Elems(leaveAll(id, {c}, im))
  <2> DEFINE ps == {c}
  <2>1. ps \in SUBSET Conns /\ ps # {} OBVIOUS
  <2> HIDE DEF ps
  <2>2. /\ leaveAll(id, ps, im) \in Seq(Task)
        /\ \A x \in Elems(leaveAll(id, ps, im)) :
              x = [op |-> "leave", id |-> id, peers |-> ps, immediate |-> im]
        /\ [op |-> "leave", id |-> id, peers |-> ps, immediate |-> im] \in Elems(leaveAll(id, ps, im))
    BY <2>1, LeaveTask
  <2> QED BY <2>2 DEF ps
<1>2. x0.op = "leave" /\ x0.id = id /\ x0.peers = {c} OBVIOUS
<1> HIDE DEF x0
<1> QED BY <1>1, <1>2 DEF HasLeave

(* A list that begins with the handler's own Leave, closes and counts      *)
(* after it.                                                               *)
LEMMA LeavingList ==
  ASSUME NEW c \in Conns, NEW id \in RoomIds, NEW im \in BOOLEAN, NEW rest \in Seq(Task),
         \A x \in Elems(rest) : Harmless(x) \/ (x.op = "leave" /\ x.peers = {c}),
         phase'[c] = "leaving"
  PROVE  LET ts == leaveAll(id, {c}, im) \o rest IN
         /\ ts \in Seq(Task) /\ HasLeave(ts, id, c)
         /\ \A x \in Elems(ts) : /\ Harmless(x) \/ (x.op = "leave" /\ x.peers = {c})
                                 /\ Grounded(x)' /\ x.op # "joined"
<1> DEFINE l == leaveAll(id, {c}, im)
           ts == l \o rest
<1>1. l \in Seq(Task) /\ HasLeave(l, id, c) /\ \A x \in Elems(l) : x.op = "leave" /\ x.peers = {c}
  BY OwnLeave
<1> HIDE DEF l
<1>2. ts \in Seq(Task) /\ Elems(ts) = Elems(l) \cup Elems(rest) BY <1>1, ElemsConcat
<1> HIDE DEF ts
<1>3. HasLeave(ts, id, c) BY <1>1, <1>2 DEF HasLeave
<1>4. \A x \in Elems(ts) : Harmless(x) \/ (x.op = "leave" /\ x.peers = {c}) BY <1>1, <1>2
<1>5. \A x \in Elems(ts) : Grounded(x)' /\ x.op # "joined" BY <1>4, HarmlessGrounded DEF Grounded
<1> QED BY <1>2, <1>3, <1>4, <1>5 DEF ts, l

LEMMA Regroup ==
  ASSUME NEW s \in Seq(Task), NEW t \in Seq(Task), NEW u \in Seq(Task)
  PROVE  (s \o t) \o u = s \o (t \o u)
  BY ConcatAssociative

LEMMA CountThenClose ==
  ASSUME NEW c \in Conns
  PROVE  /\ roomCount \o closePeers({c}) \in Seq(Task)
         /\ \A x \in Elems(roomCount \o closePeers({c})) : Harmless(x)
<1>1. closePeers({c}) \in Seq(Task) /\ \A x \in Elems(closePeers({c})) : x.op = "close" BY CloseOne
<1>2. /\ roomCount \o closePeers({c}) \in Seq(Task)
      /\ Elems(roomCount \o closePeers({c})) = Elems(roomCount) \cup Elems(closePeers({c}))
  BY <1>1, CountTask, ElemsConcat
<1> QED BY <1>1, <1>2, CountTask DEF Harmless

LEMMA DeferredTasks ==
  ASSUME NEW c \in Conns, roomOf[c] \in RoomIds, phase'[c] = "leaving"
  PROVE  /\ Deferred(c) \in Seq(Task) /\ HasLeave(Deferred(c), roomOf[c], c)
         /\ \A x \in Elems(Deferred(c)) : /\ Harmless(x) \/ (x.op = "leave" /\ x.peers = {c})
                                          /\ Grounded(x)' /\ x.op # "joined"
<1> DEFINE rest == roomCount \o closePeers({c})
           l == leaveAll(roomOf[c], {c}, FALSE)
<1>1. rest \in Seq(Task) /\ \A x \in Elems(rest) : Harmless(x) BY CountThenClose
<1>2. l \in Seq(Task) /\ roomCount \in Seq(Task) /\ closePeers({c}) \in Seq(Task)
  BY OwnLeave, CountTask, CloseOne
<1>3. Deferred(c) = l \o rest
  <2>1. Deferred(c) = (l \o roomCount) \o closePeers({c}) BY DEF Deferred
  <2> HIDE DEF l
  <2> QED BY <1>2, <2>1, Regroup
<1> HIDE DEF rest
<1>4. /\ l \o rest \in Seq(Task) /\ HasLeave(l \o rest, roomOf[c], c)
      /\ \A x \in Elems(l \o rest) : /\ Harmless(x) \/ (x.op = "leave" /\ x.peers = {c})
                                     /\ Grounded(x)' /\ x.op # "joined"
  BY <1>1, LeavingList
<1> QED BY <1>3, <1>4

LEMMA ReadFailsStep == ASSUME Inv, NEW c \in Conns, ReadFails(c) PROVE StepOK
<1>1. /\ phase[c] = "reading" /\ Idle(c) /\ phase' = [phase EXCEPT ![c] = "leaving"]
      /\ Start(c, Deferred(c))
      /\ UNCHANGED <<rooms, closed, closeDone, created, callbacks, detached, conn, roomOf, now, failedSend, shutdown>>
  BY DEF ReadFails, manager, history
<1>2. c \in Goroutines /\ phase'[c] = "leaving" /\ roomOf[c] \in RoomIds
  BY <1>1, InGoroutines DEF Inv, Typed, AtHome
<1>3. /\ Deferred(c) \in Seq(Task) /\ HasLeave(Deferred(c), roomOf[c], c)
      /\ \A x \in Elems(Deferred(c)) : Grounded(x)' /\ x.op # "joined"
  BY <1>2, DeferredTasks
<1>4. TaskStep BY <1>1, <1>2, <1>3, TasksStarted
<1>5. /\ tasks' \in [Goroutines -> Seq(Task)] /\ tasks'[c] = Deferred(c)
      /\ \A h \in Goroutines : h # c => tasks'[h] = tasks[h]
  BY <1>1, <1>2, <1>3, Started DEF Inv
<1>6. phase[c] # "idle" /\ failedSend \subseteq failedSend' /\ failedSend' \subseteq Conns BY <1>1 DEF Inv, Typed
<1> QED BY <1>1, <1>3, <1>4, <1>5, <1>6, StartsLeaving

LEMMA ClientLeavesStep == ASSUME Inv, NEW c \in Conns, ClientLeaves(c) PROVE StepOK
<1> DEFINE l == leaveAll(roomOf[c], {c}, TRUE)
           rest == closePeers({c}) \o Deferred(c)
           ts == l \o rest
<1>1. /\ phase[c] = "reading" /\ Idle(c) /\ phase' = [phase EXCEPT ![c] = "leaving"]
      /\ Start(c, (l \o closePeers({c})) \o Deferred(c))
      /\ UNCHANGED <<rooms, closed, closeDone, created, callbacks, detached, conn, roomOf, now, failedSend, shutdown>>
  BY DEF ClientLeaves, manager, history
<1>2. c \in Goroutines /\ phase'[c] = "leaving" /\ roomOf[c] \in RoomIds
  BY <1>1, InGoroutines DEF Inv, Typed, AtHome
<1>3. /\ Deferred(c) \in Seq(Task)
      /\ \A x \in Elems(Deferred(c)) : Harmless(x) \/ (x.op = "leave" /\ x.peers = {c})
  BY <1>2, DeferredTasks
<1>4. closePeers({c}) \in Seq(Task) /\ \A x \in Elems(closePeers({c})) : x.op = "close" BY CloseOne
<1>5. /\ rest \in Seq(Task) /\ Elems(rest) = Elems(closePeers({c})) \cup Elems(Deferred(c))
  BY <1>3, <1>4, ElemsConcat
<1>6. \A x \in Elems(rest) : Harmless(x) \/ (x.op = "leave" /\ x.peers = {c})
  BY <1>3, <1>4, <1>5 DEF Harmless
<1>7. l \in Seq(Task) BY <1>2, OwnLeave
<1>8. Start(c, ts)
  <2> HIDE DEF l
  <2>1. (l \o closePeers({c})) \o Deferred(c) = ts BY <1>3, <1>4, <1>7, Regroup
  <2> QED BY <1>1, <2>1
<1> HIDE DEF rest
<1>9. /\ ts \in Seq(Task) /\ HasLeave(ts, roomOf[c], c)
      /\ \A x \in Elems(ts) : Grounded(x)' /\ x.op # "joined"
  BY <1>2, <1>5, <1>6, LeavingList
<1> HIDE DEF ts
<1>10. TaskStep BY <1>1, <1>2, <1>8, <1>9, TasksStarted
<1>11. /\ tasks' \in [Goroutines -> Seq(Task)] /\ tasks'[c] = ts
       /\ \A h \in Goroutines : h # c => tasks'[h] = tasks[h]
  BY <1>1, <1>2, <1>8, <1>9, Started DEF Inv
<1>12. phase[c] # "idle" /\ failedSend \subseteq failedSend' /\ failedSend' \subseteq Conns BY <1>1 DEF Inv, Typed
<1> QED BY <1>1, <1>9, <1>10, <1>11, <1>12, StartsLeaving

LEMMA JoinSendsJoinedStep == ASSUME Inv, NEW c \in Conns, JoinSendsJoined(c) PROVE StepOK
<1>1. /\ tasks[c] # <<>> /\ Head(tasks[c]).op = "joined"
      /\ UNCHANGED <<rooms, closed, closeDone, created, callbacks, detached, conn, roomOf, now, shutdown>>
  BY DEF JoinSendsJoined, Current, manager
<1>2. c \in Goroutines /\ tasks[c] \in Seq(Task) BY InGoroutines DEF Inv, Typed
<1>3. Head(tasks[c]) \in Elems(tasks[c]) /\ Head(tasks[c]) \in Task BY <1>1, <1>2, ElemsHeadTail
<1>4. phase[c] = "joining" BY <1>1, <1>3 DEF Inv, JoinShape
<1>5. Tail(tasks[c]) = <<>> /\ roomOf[c] \in RoomIds BY <1>1, <1>4, JoiningHead DEF Inv, AtHome
<1>6. Elems(Tail(tasks[c])) = {} BY <1>5, ElemsNone
<1>7. CASE /\ phase' = [phase EXCEPT ![c] = "leaving"]
           /\ Replace(c, JoinFailed(c))
           /\ failedSend' = failedSend \cup {c}
  <2> DEFINE ts == leaveAll(roomOf[c], {c}, TRUE) \o closePeers({c})
  <2>1. phase'[c] = "leaving" BY <1>2, <1>7 DEF Inv, Typed
  <2>2. closePeers({c}) \in Seq(Task) /\ \A x \in Elems(closePeers({c})) : x.op = "close" BY CloseOne
  <2>3. \A x \in Elems(closePeers({c})) : Harmless(x) \/ (x.op = "leave" /\ x.peers = {c}) BY <2>2 DEF Harmless
  <2>4. /\ ts \in Seq(Task) /\ HasLeave(ts, roomOf[c], c)
        /\ \A x \in Elems(ts) : Grounded(x)' /\ x.op # "joined"
    BY <1>5, <2>1, <2>2, <2>3, LeavingList
  <2>5. Replace(c, ts) BY <1>7 DEF JoinFailed
  <2> HIDE DEF ts
  <2>6. /\ tasks' \in [Goroutines -> Seq(Task)]
        /\ Elems(tasks'[c]) = Elems(ts) \cup Elems(Tail(tasks[c]))
        /\ \A h \in Goroutines : h # c => tasks'[h] = tasks[h]
    BY <1>1, <1>2, <2>4, <2>5, Replaced DEF Inv
  <2>7. TaskStep BY <1>1, <1>2, <2>4, <2>5, TasksReplaced
  <2>8. HasLeave(tasks'[c], roomOf[c], c) /\ \A x \in Elems(tasks'[c]) : x.op # "joined"
    BY <1>6, <2>4, <2>6 DEF HasLeave
  <2>9. phase[c] # "idle" /\ failedSend \subseteq failedSend' /\ failedSend' \subseteq Conns
    BY <1>4, <1>7 DEF Inv, Typed
  <2> QED BY <1>1, <1>7, <2>6, <2>7, <2>8, <2>9, StartsLeaving
<1>8. CASE /\ phase' = [phase EXCEPT ![c] = "reading"]
           /\ Replace(c, sendPeers(roomOf[c], Head(tasks[c]).existing, "peer-joined")
                           \o broadcast(roomOf[c], "peer-list") \o roomCount)
           /\ failedSend' = failedSend
  <2> DEFINE a == sendPeers(roomOf[c], Head(tasks[c]).existing, "peer-joined")
             b == broadcast(roomOf[c], "peer-list")
             ts == (a \o b) \o roomCount
  <2>1. Head(tasks[c]).existing \in SUBSET Conns BY <1>1, <1>3, TaskFields
  <2>2. a \in Seq(Task) /\ \A x \in Elems(a) : x.op = "send" /\ x.failed = {}
    <3>1. "peer-joined" \in Events BY DEF Events
    <3> QED BY <1>5, <2>1, <3>1, SendTask
  <2>3. b \in Seq(Task) /\ \A x \in Elems(b) : x.op = "broadcast"
    <3>1. "peer-list" \in Events BY DEF Events
    <3> QED BY <1>5, <3>1, BroadcastTask
  <2>4. Replace(c, ts) BY <1>8
  <2> HIDE DEF a, b
  <2>5. a \o b \in Seq(Task) /\ Elems(a \o b) = Elems(a) \cup Elems(b) BY <2>2, <2>3, ElemsConcat
  <2>6. ts \in Seq(Task) /\ Elems(ts) = Elems(a \o b) \cup Elems(roomCount)
    <3> DEFINE ab == a \o b
    <3>1. ab \in Seq(Task) /\ ts = ab \o roomCount BY <2>5
    <3> HIDE DEF ab, ts
    <3>2. ts \in Seq(Task) /\ Elems(ts) = Elems(ab) \cup Elems(roomCount) BY <3>1, CountTask, ElemsConcat
    <3> QED BY <3>2 DEF ab
  <2>7. \A x \in Elems(ts) : Harmless(x) BY <2>2, <2>3, <2>5, <2>6, CountTask DEF Harmless
  <2> HIDE DEF ts
  <2>8. /\ tasks' \in [Goroutines -> Seq(Task)]
        /\ Elems(tasks'[c]) = Elems(ts) \cup Elems(Tail(tasks[c]))
        /\ \A h \in Goroutines : h # c => tasks'[h] = tasks[h]
    BY <1>1, <1>2, <2>4, <2>6, Replaced DEF Inv
  <2>9. TaskStep BY <1>1, <1>2, <2>4, <2>6, <2>7, TasksReplaced, HarmlessGrounded
  <2>10. /\ phase'[c] = "reading" /\ \A h \in Goroutines : h # c => phase'[h] = phase[h]
         /\ phase' \in [Goroutines -> {"idle", "joining", "reading", "leaving", "closing", "returned"}]
    BY <1>2, <1>8 DEF Inv, Typed
  <2>11. \A x \in Elems(tasks'[c]) : x.op # "joined" BY <1>6, <2>7, <2>8, HarmlessGrounded
  <2>12. JoinShape' /\ c \notin Closers /\ \A s \in Closers : phase'[s] = phase[s]
    BY <2>8, <2>10, <2>11, HandlerShape
  <2>13. CloserStep BY <1>1, <1>2, <2>8, <2>12, ClosersApart
  <2>14. RoomsStep /\ RoomsOK(rooms') /\ MemberStep BY <1>1, RoomsSame
  <2>15. TimerStep BY <1>1, TimersSame
  <2>16. ConnStep
    <3>1. ASSUME NEW d \in Conns, d # c PROVE phase'[d] = phase[d] BY <2>10, <3>1, InGoroutines
    <3>2. \A d \in Conns : phase[d] # "idle" => roomOf[d] \in RoomIds BY DEF Inv, AtHome
    <3> QED BY <1>1, <1>4, <1>8, <2>10, <3>1, <3>2 DEF ConnStep, Attending
  <2>17. Typed' BY <1>1, <1>8, <2>8, <2>10, <2>14 DEF Inv, Typed
  <2> QED BY <2>9, <2>12, <2>13, <2>14, <2>15, <2>16, <2>17 DEF StepOK
<1> QED BY <1>7, <1>8 DEF JoinSendsJoined

LEMMA RelayStep == ASSUME Inv, NEW c \in Conns, Relay(c) PROVE StepOK
<1>1. PICK t \in SampledNow :
        /\ rooms' = pruneExpiredLocked(t)
        /\ Start(c, closePeers(ExpiredPeers(t)) \o
                    (IF IsMember(pruneExpiredLocked(t), roomOf[c], c)
                     THEN sendPeers(roomOf[c], rooms[roomOf[c]].peers \ {c}, "secure")
                     ELSE <<>>))
  BY DEF Relay
<1>2. /\ phase[c] = "reading" /\ Idle(c)
      /\ UNCHANGED <<closed, closeDone, callbacks, detached, conn, phase, roomOf, now, created, failedSend, shutdown>>
  BY DEF Relay, history
<1>3. c \in Goroutines /\ roomOf[c] \in RoomIds BY <1>2, InGoroutines DEF Inv, AtHome
<1> DEFINE rest == IF IsMember(pruneExpiredLocked(t), roomOf[c], c)
                   THEN sendPeers(roomOf[c], rooms[roomOf[c]].peers \ {c}, "secure") ELSE <<>>
           ts == closePeers(ExpiredPeers(t)) \o rest
<1>4. rest \in Seq(Task) /\ \A x \in Elems(rest) : Harmless(x)
  <2>1. CASE IsMember(pruneExpiredLocked(t), roomOf[c], c)
    <3>1. roomOf[c] \in DOMAIN rooms BY <2>1, Pruned DEF IsMember, Inv, Typed
    <3>2. rooms[roomOf[c]].peers \subseteq Conns BY <3>1, RoomFields DEF Inv, Typed, RoomsOK
    <3> DEFINE ps == rooms[roomOf[c]].peers \ {c}
               ev == "secure"
    <3>3. ps \in SUBSET Conns /\ ev \in Events /\ rest = sendPeers(roomOf[c], ps, ev) BY <2>1, <3>2 DEF Events
    <3> HIDE DEF ps, ev, rest
    <3>4. /\ sendPeers(roomOf[c], ps, ev) \in Seq(Task)
          /\ \A x \in Elems(sendPeers(roomOf[c], ps, ev)) : x.op = "send" /\ x.failed = {}
      BY <1>3, <3>3, SendTask
    <3> QED BY <3>3, <3>4 DEF Harmless
  <2>2. CASE ~IsMember(pruneExpiredLocked(t), roomOf[c], c) BY <2>2, ElemsNone
  <2> QED BY <2>1, <2>2
<1>5. Start(c, ts) BY <1>1
<1> HIDE DEF rest
<1>6. /\ ts \in Seq(Task)
      /\ Elems(ts) = Elems(closePeers(ExpiredPeers(t))) \cup Elems(rest)
      /\ \A x \in Elems(closePeers(ExpiredPeers(t))) : x.op = "close"
  BY <1>4, PruneTasks
<1>7. \A x \in Elems(ts) : Harmless(x) BY <1>4, <1>6 DEF Harmless
<1> HIDE DEF ts
<1>8. /\ tasks' \in [Goroutines -> Seq(Task)] /\ tasks'[c] = ts
      /\ \A h \in Goroutines : h # c => tasks'[h] = tasks[h]
  BY <1>2, <1>3, <1>5, <1>6, Started DEF Inv
<1>9. TaskStep BY <1>2, <1>3, <1>5, <1>6, <1>7, TasksStarted, HarmlessGrounded
<1>10. JoinShape' /\ c \notin Closers BY <1>2, <1>7, <1>8, HandlerShape, HarmlessGrounded
<1>11. \A x \in Elems(closePeers(ExpiredPeers(t))) : x \in Elems(tasks'[c]) BY <1>6, <1>8
<1> QED BY <1>1, <1>2, <1>3, <1>8, <1>9, <1>10, <1>11, PruneStep

-----------------------------------------------------------------------------
(* Steps outside the mutex: frames and closes.                             *)
LEMMA QuietStep ==
  ASSUME Inv, tasks' \in [Goroutines -> Seq(Task)], TaskStep, JoinShape',
         \A s \in Closers : tasks[s] = <<>> => tasks'[s] = <<>>,
         conn' \in [Conns -> {"none", "open", "closed"}],
         \A c \in Conns : conn'[c] \in {conn[c], "closed"},
         detached' \subseteq Conns, \A c \in detached : c \in detached' \/ conn'[c] = "closed",
         failedSend \subseteq failedSend', failedSend' \subseteq Conns,
         UNCHANGED <<rooms, closed, closeDone, created, callbacks, phase, roomOf, now, shutdown>>
  PROVE  StepOK
<1>1. RoomsStep /\ RoomsOK(rooms') /\ MemberStep BY RoomsSame
<1>2. CloserStep BY DEF CloserStep, Inv, Batch
<1>3. TimerStep BY TimersSame
<1>4. ConnStep
  <2>1. \A d \in Conns : phase[d] # "idle" => roomOf[d] \in RoomIds BY DEF Inv, AtHome
  <2> QED BY <2>1 DEF ConnStep, Attending
<1>5. Typed' BY <1>1 DEF Inv, Typed
<1> QED BY <1>1, <1>2, <1>3, <1>4, <1>5 DEF StepOK

LEMMA ClosersTasks ==
  ASSUME NEW g \in Goroutines, tasks[g] # <<>>,
         \A h \in Goroutines : h # g => tasks'[h] = tasks[h]
  PROVE  \A s \in Closers : tasks[s] = <<>> => tasks'[s] = <<>>
  BY InGoroutines

LEMMA SameTasks ==
  ASSUME Inv, tasks' = tasks, phase' = phase, failedSend' = failedSend PROVE TaskStep /\ JoinShape'
  BY DEF TaskStep, Inv, JoinShape

LEMMA ClientDropsStep == ASSUME Inv, NEW c \in Conns, ClientDrops(c) PROVE StepOK
<1>1. /\ conn' = [conn EXCEPT ![c] = "closed"]
      /\ UNCHANGED <<rooms, closed, closeDone, created, callbacks, detached, phase, roomOf, tasks, now, failedSend, shutdown>>
  BY DEF ClientDrops, manager, history
<1>2. /\ conn' \in [Conns -> {"none", "open", "closed"}]
      /\ \A d \in Conns : conn'[d] \in {conn[d], "closed"}
      /\ tasks \in [Goroutines -> Seq(Task)] /\ detached \subseteq Conns /\ failedSend \subseteq Conns
  BY <1>1 DEF Inv, Typed
<1>3. TaskStep /\ JoinShape' BY <1>1, SameTasks
<1> QED BY <1>1, <1>2, <1>3, QuietStep

LEMMA CloseDetachedStep == ASSUME Inv, NEW p \in detached, CloseDetached(p) PROVE StepOK
<1>1. /\ detached' = detached \ {p} /\ conn' = [conn EXCEPT ![p] = "closed"]
      /\ UNCHANGED <<rooms, closed, closeDone, created, callbacks, phase, roomOf, tasks, now, failedSend, shutdown>>
  BY DEF CloseDetached, manager, history
<1>2. /\ conn' \in [Conns -> {"none", "open", "closed"}] /\ p \in Conns /\ conn'[p] = "closed"
      /\ \A d \in Conns : conn'[d] \in {conn[d], "closed"}
      /\ tasks \in [Goroutines -> Seq(Task)] /\ detached \subseteq Conns /\ failedSend \subseteq Conns
  BY <1>1 DEF Inv, Typed
<1>3. TaskStep /\ JoinShape' BY <1>1, SameTasks
<1> QED BY <1>1, <1>2, <1>3, QuietStep

LEMMA BroadcastStep == ASSUME Inv, NEW g \in Goroutines, Broadcast(g) PROVE StepOK
<1> DEFINE task == Head(tasks[g])
           ts == IF task.id \in DOMAIN rooms /\ ~closed
                 THEN sendPeers(task.id, rooms[task.id].peers, task.event) ELSE <<>>
<1>1. /\ tasks[g] # <<>> /\ task.op = "broadcast" /\ Replace(g, ts)
      /\ UNCHANGED <<rooms, closed, closeDone, created, callbacks, detached, conn, phase, roomOf, now, failedSend, shutdown>>
  BY DEF Broadcast, Current, manager, history
<1>2. task \in Task BY <1>1, ElemsHeadTail DEF Inv, Typed
<1>3. ts \in Seq(Task) /\ \A x \in Elems(ts) : Harmless(x)
  <2>1. CASE task.id \in DOMAIN rooms /\ ~closed
    <3> DEFINE ps == rooms[task.id].peers
               id == task.id
               ev == task.event
    <3>1. ps \in SUBSET Conns BY <2>1, RoomFields DEF Inv, Typed, RoomsOK
    <3>2. id \in RoomIds /\ ev \in Events BY <1>1, <1>2, TaskFields
    <3>3. ts = sendPeers(id, ps, ev) BY <2>1
    <3> HIDE DEF ps, id, ev, ts
    <3>4. /\ sendPeers(id, ps, ev) \in Seq(Task)
          /\ \A x \in Elems(sendPeers(id, ps, ev)) : x.op = "send" /\ x.failed = {}
      BY <3>1, <3>2, SendTask
    <3> QED BY <3>3, <3>4 DEF Harmless
  <2>2. CASE ~(task.id \in DOMAIN rooms /\ ~closed) BY <2>2, ElemsNone
  <2> QED BY <2>1, <2>2
<1>4. Head(tasks[g]).op \notin {"close", "leave"} /\ Head(tasks[g]).op \notin {"close", "joined"} BY <1>1
<1>5. Replace(g, ts) /\ tasks[g] # <<>> BY <1>1
<1> HIDE DEF ts, task
<1>6. /\ tasks' \in [Goroutines -> Seq(Task)]
      /\ \A h \in Goroutines : h # g => tasks'[h] = tasks[h]
  BY <1>3, <1>5, Replaced DEF Inv
<1>7. TaskStep BY <1>3, <1>4, <1>5, TasksReplaced, HarmlessGrounded
<1>8. JoinShape' BY <1>1, <1>3, <1>4, <1>5, ShapeReplaced, HarmlessGrounded
<1>9. \A s \in Closers : tasks[s] = <<>> => tasks'[s] = <<>> BY <1>5, <1>6, ClosersTasks
<1> QED BY <1>1, <1>6, <1>7, <1>8, <1>9, QuietStep DEF Inv, Typed

LEMMA SendStep == ASSUME Inv, NEW g \in Goroutines, Send(g) PROVE StepOK
<1> DEFINE task == Head(tasks[g])
<1>1. /\ tasks[g] # <<>> /\ task.op = "send"
      /\ UNCHANGED <<rooms, closed, closeDone, created, callbacks, detached, conn, phase, roomOf, now, shutdown>>
  BY DEF Send, Current, manager
<1>2. task \in Task /\ task \in Elems(tasks[g]) BY <1>1, ElemsHeadTail DEF Inv, Typed
<1>3. /\ task.id \in RoomIds /\ task.peers \subseteq Conns /\ task.event \in Events
      /\ task.failed \subseteq Conns
  BY <1>1, <1>2, TaskFields
<1>4. task.failed \subseteq failedSend BY <1>1, <1>2 DEF Inv, LeavesGrounded, Grounded
<1>5. PICK p \in task.peers, ok \in BOOLEAN :
        LET failed == IF ok THEN task.failed ELSE task.failed \cup {p}
            left == task.peers \ {p}
        IN /\ Replace(g, IF left = {} THEN leaveAll(task.id, failed, FALSE)
                         ELSE <<[task EXCEPT !.peers = left, !.failed = failed]>>)
           /\ failedSend' = IF ok THEN failedSend ELSE failedSend \cup {p}
  BY DEF Send
<1> DEFINE failed == IF ok THEN task.failed ELSE task.failed \cup {p}
           left == task.peers \ {p}
           next == [task EXCEPT !.peers = left, !.failed = failed]
           ts == IF left = {} THEN leaveAll(task.id, failed, FALSE) ELSE <<next>>
<1>6. /\ failed \in SUBSET Conns /\ failed \subseteq failedSend' /\ left \in SUBSET Conns
      /\ failedSend \subseteq failedSend' /\ failedSend' \subseteq Conns
  BY <1>3, <1>4, <1>5 DEF Inv, Typed
<1>7. Replace(g, ts) BY <1>5
<1>8. next \in Task /\ next.op = "send" /\ next.failed = failed
  <2> HIDE DEF failed, left
  <2> QED BY <1>1, <1>2, <1>6 DEF Task
<1>9. ts \in Seq(Task) /\ \A x \in Elems(ts) : Grounded(x)' /\ x.op # "joined"
  <2>1. CASE left = {}
    <3> DEFINE id == task.id
               im == FALSE
    <3>1. id \in RoomIds /\ im \in BOOLEAN /\ ts = leaveAll(id, failed, im) BY <1>3, <2>1
    <3> HIDE DEF failed, id, im, ts
    <3>2. /\ leaveAll(id, failed, im) \in Seq(Task)
          /\ \A x \in Elems(leaveAll(id, failed, im)) :
               x = [op |-> "leave", id |-> id, peers |-> failed, immediate |-> im]
      BY <1>6, <3>1, LeaveTask
    <3>3. \A x \in Elems(leaveAll(id, failed, im)) : x.op = "leave" /\ x.peers = failed BY <3>2
    <3> QED BY <1>6, <3>1, <3>2, <3>3 DEF Grounded
  <2>2. CASE left # {}
    <3>1. ts = <<next>> BY <2>2
    <3> HIDE DEF next, ts
    <3>2. <<next>> \in Seq(Task) /\ Elems(<<next>>) = {next} BY <1>8, ElemsOne
    <3> QED BY <1>6, <1>8, <3>1, <3>2 DEF Grounded
  <2> QED BY <2>1, <2>2
<1>10. Head(tasks[g]).op \notin {"close", "leave"} /\ Head(tasks[g]).op \notin {"close", "joined"} BY <1>1
<1>11. tasks[g] # <<>> BY <1>1
<1> HIDE DEF ts, task, next, left, failed
<1>12. /\ tasks' \in [Goroutines -> Seq(Task)]
       /\ \A h \in Goroutines : h # g => tasks'[h] = tasks[h]
  BY <1>7, <1>9, <1>11, Replaced DEF Inv
<1>13. TaskStep BY <1>7, <1>9, <1>10, <1>11, TasksReplaced
<1>14. JoinShape' BY <1>1, <1>7, <1>9, <1>10, <1>11, ShapeReplaced
<1>15. \A s \in Closers : tasks[s] = <<>> => tasks'[s] = <<>> BY <1>11, <1>12, ClosersTasks
<1> QED BY <1>1, <1>6, <1>12, <1>13, <1>14, <1>15, QuietStep DEF Inv, Typed

LEMMA ClosePeerStep == ASSUME Inv, NEW g \in Goroutines, ClosePeer(g) PROVE StepOK
<1> DEFINE task == Head(tasks[g])
<1>1. /\ tasks[g] # <<>> /\ task.op = "close"
      /\ UNCHANGED <<rooms, closed, closeDone, created, callbacks, detached, phase, roomOf, now, failedSend, shutdown>>
  BY DEF ClosePeer, Current, manager, history
<1>2. PICK p \in task.peers :
        conn' = [conn EXCEPT ![p] = "closed"] /\ Replace(g, closePeers(task.peers \ {p}))
  BY DEF ClosePeer
<1>3. task \in Task BY <1>1, ElemsHeadTail DEF Inv, Typed
<1>4. task.peers \subseteq Conns BY <1>1, <1>3, TaskFields
<1> DEFINE left == task.peers \ {p}
           ts == closePeers(left)
<1>5. left \in SUBSET Conns /\ p \in Conns BY <1>2, <1>4
<1>6. Replace(g, ts) /\ \A q \in task.peers : q = p \/ q \in left BY <1>2
<1> HIDE DEF left
<1>7. /\ ts \in Seq(Task) /\ \A x \in Elems(ts) : x = [op |-> "close", peers |-> left]
      /\ left # {} => [op |-> "close", peers |-> left] \in Elems(ts)
  BY <1>5, CloseTask
<1>8. (\A x \in Elems(ts) : x.op = "close") /\ \A q \in left : HasClose(ts, q)
  BY <1>7 DEF HasClose
<1> HIDE DEF ts
<1>9. /\ tasks' \in [Goroutines -> Seq(Task)] /\ tasks'[g] = ts \o Tail(tasks[g])
      /\ Elems(tasks'[g]) = Elems(ts) \cup Elems(Tail(tasks[g]))
      /\ \A h \in Goroutines : h # g => tasks'[h] = tasks[h]
      /\ Elems(tasks[g]) = {task} \cup Elems(Tail(tasks[g]))
  BY <1>1, <1>6, <1>7, Replaced DEF Inv
<1>10. /\ conn' \in [Conns -> {"none", "open", "closed"}] /\ conn'[p] = "closed"
       /\ \A d \in Conns : conn'[d] \in {conn[d], "closed"}
  BY <1>2, <1>5 DEF Inv, Typed
<1>11. TaskStep
  <2> DEFINE old == Elems(Tail(tasks[g]))
  <2> HIDE DEF old, task
  <2>1. Elems(tasks'[g]) = Elems(ts) \cup old /\ Elems(tasks[g]) = {task} \cup old /\ task.op = "close"
    BY <1>1, <1>9 DEF old, task
  <2>2. ASSUME NEW q \in Conns, HasClose(tasks[g], q) PROVE HasClose(tasks'[g], q) \/ conn'[q] = "closed"
    <3>1. PICK x \in Elems(tasks[g]) : x.op = "close" /\ q \in x.peers BY <2>2 DEF HasClose
    <3>2. CASE x \in old BY <2>1, <3>1, <3>2 DEF HasClose
    <3>3. CASE x = task
      <4>1. q = p \/ q \in left BY <1>6, <3>1, <3>3
      <4>2. CASE q = p BY <1>10, <4>2
      <4>3. CASE q \in left BY <1>8, <2>1, <4>3 DEF HasClose
      <4> QED BY <4>1, <4>2, <4>3
    <3> QED BY <2>1, <3>1, <3>2, <3>3
  <2>3. \A id, q : HasLeave(tasks[g], id, q) => HasLeave(tasks'[g], id, q) BY <2>1 DEF HasLeave
  <2>4. \A x \in Elems(ts) : Grounded(x)' BY <1>8 DEF Grounded
  <2> QED BY <1>9, <2>1, <2>2, <2>3, <2>4, InGoroutines DEF TaskStep
<1>12. JoinShape'
  <2> SUFFICES ASSUME NEW c \in Conns
               PROVE  /\ phase'[c] = "joining" => JoinTasks(tasks'[c])
                      /\ phase'[c] # "joining" => \A x \in Elems(tasks'[c]) : x.op # "joined"
    BY DEF JoinShape
  <2>1. CASE c # g BY <1>1, <1>9, <2>1, InGoroutines DEF Inv, JoinShape
  <2>2. CASE c = g /\ phase[c] = "joining"
    <3>1. PICK ex \in SUBSET Conns : Tail(tasks[g]) = <<[op |-> "joined", existing |-> ex]>>
      BY <1>1, <2>2, JoiningHead
    <3>2. tasks'[g] = closePeers(left) \o <<[op |-> "joined", existing |-> ex]>> BY <1>9, <3>1 DEF ts
    <3> QED BY <1>1, <1>5, <2>2, <3>2 DEF JoinTasks
  <2>3. CASE c = g /\ phase[c] # "joining"
    <3>1. \A x \in Elems(tasks[g]) : x.op # "joined" BY <2>3 DEF Inv, JoinShape
    <3> QED BY <1>1, <1>8, <1>9, <2>3, <3>1
  <2> QED BY <2>1, <2>2, <2>3
<1>13. \A s \in Closers : tasks[s] = <<>> => tasks'[s] = <<>> BY <1>1, <1>9, ClosersTasks
<1> QED BY <1>1, <1>9, <1>10, <1>11, <1>12, <1>13, QuietStep DEF Inv, Typed

-----------------------------------------------------------------------------
(* Leave.                                                                  *)
LEMMA LeaveTasks ==
  ASSUME Inv, NEW g \in Goroutines, Current(g, "leave"), NEW p \in Head(tasks[g]).peers,
         NEW pre \in Seq(Task), \A x \in Elems(pre) : Harmless(x),
         Replace(g, pre \o leaveAll(Head(tasks[g]).id, Head(tasks[g]).peers \ {p}, Head(tasks[g]).immediate)),
         roomOf[p] = Head(tasks[g]).id => ~Inside(rooms', p),
         UNCHANGED <<phase, failedSend>>
  PROVE  /\ TaskStep /\ JoinShape' /\ tasks' \in [Goroutines -> Seq(Task)] /\ tasks[g] # <<>>
         /\ \A x \in Elems(pre) : x \in Elems(tasks'[g])
         /\ \A h \in Goroutines : h # g => tasks'[h] = tasks[h]
<1> DEFINE task == Head(tasks[g])
           id == task.id
           left == task.peers \ {p}
           im == task.immediate
           rest == leaveAll(id, left, im)
           ts == pre \o rest
<1>1. tasks[g] # <<>> /\ task.op = "leave" BY DEF Current
<1>2. task \in Task /\ task \in Elems(tasks[g]) BY <1>1, ElemsHeadTail DEF Inv, Typed
<1>3. id \in RoomIds /\ task.peers \subseteq Conns /\ left \in SUBSET Conns /\ im \in BOOLEAN
  BY <1>1, <1>2, TaskFields
<1>4. \A q \in left : phase[q] = "leaving" \/ q \in failedSend
  BY <1>1, <1>2 DEF Inv, LeavesGrounded, Grounded
<1>5. Replace(g, ts) OBVIOUS
<1>6. \A q \in task.peers : q = p \/ q \in left OBVIOUS
<1>7. roomOf[p] = id => ~Inside(rooms', p) OBVIOUS
<1>8. Head(tasks[g]).op \notin {"close", "joined"} BY <1>1
<1> HIDE DEF id, left, im
<1>9. /\ rest \in Seq(Task)
      /\ \A x \in Elems(rest) : x = [op |-> "leave", id |-> id, peers |-> left, immediate |-> im]
      /\ left # {} => [op |-> "leave", id |-> id, peers |-> left, immediate |-> im] \in Elems(rest)
  BY <1>3, LeaveTask
<1>10. \A x \in Elems(rest) : x.op = "leave" /\ x.peers = left BY <1>9
<1>11. \A q \in left : HasLeave(rest, id, q) BY <1>9 DEF HasLeave
<1>12. \A x \in Elems(rest) : Grounded(x)' /\ x.op # "joined" BY <1>4, <1>10 DEF Grounded
<1> HIDE DEF rest
<1>13. ts \in Seq(Task) /\ Elems(ts) = Elems(pre) \cup Elems(rest) BY <1>9, ElemsConcat
<1>14. \A x \in Elems(ts) : Grounded(x)' /\ x.op # "joined" BY <1>12, <1>13, HarmlessGrounded
<1> HIDE DEF ts
<1>15. /\ tasks' \in [Goroutines -> Seq(Task)]
       /\ Elems(tasks'[g]) = Elems(ts) \cup Elems(Tail(tasks[g]))
       /\ \A h \in Goroutines : h # g => tasks'[h] = tasks[h]
       /\ Elems(tasks[g]) = {task} \cup Elems(Tail(tasks[g]))
  BY <1>1, <1>5, <1>13, Replaced DEF Inv
<1>16. JoinShape' BY <1>1, <1>5, <1>8, <1>13, <1>14, ShapeReplaced
<1>17. TaskStep
  <2> DEFINE old == Elems(Tail(tasks[g]))
  <2>1. /\ Elems(tasks'[g]) = (Elems(pre) \cup Elems(rest)) \cup old /\ Elems(tasks[g]) = {task} \cup old
        /\ task.op = "leave" /\ id = task.id
    BY <1>1, <1>13, <1>15 DEF id
  <2> HIDE DEF old, task
  <2>2. \A q \in Conns : HasClose(tasks[g], q) => HasClose(tasks'[g], q) BY <2>1 DEF HasClose
  <2>3. ASSUME NEW c \in Conns, c = g, Inside(rooms', c), HasLeave(tasks[g], roomOf[c], c)
        PROVE  HasLeave(tasks'[g], roomOf[c], c)
    <3>1. PICK x \in Elems(tasks[g]) : x.op = "leave" /\ x.id = roomOf[c] /\ c \in x.peers
      BY <2>3 DEF HasLeave
    <3>2. CASE x \in old BY <2>1, <3>1, <3>2 DEF HasLeave
    <3>3. CASE x = task
      <4>1. c # p BY <1>7, <2>1, <2>3, <3>1, <3>3
      <4>2. HasLeave(rest, id, c) BY <1>6, <1>11, <3>1, <3>3, <4>1
      <4>3. id = roomOf[c] BY <2>1, <3>1, <3>3
      <4> QED BY <2>1, <4>2, <4>3 DEF HasLeave
    <3> QED BY <2>1, <3>1, <3>2, <3>3
  <2>4. ASSUME NEW x \in Elems(tasks'[g]) PROVE x \in Elems(tasks[g]) \/ Grounded(x)'
    BY <1>13, <1>14, <2>1
  <2> QED BY <1>15, <2>2, <2>3, <2>4, InGoroutines DEF TaskStep
<1> QED BY <1>1, <1>13, <1>15, <1>16, <1>17

LEMMA LeaveStep == ASSUME Inv, NEW g \in Goroutines, Leave(g) PROVE StepOK
<1> DEFINE task == Head(tasks[g])
<1>1. /\ Current(g, "leave") /\ tasks[g] # <<>> /\ task.op = "leave"
      /\ UNCHANGED <<closed, closeDone, callbacks, detached, conn, phase, roomOf, now, created, failedSend, shutdown>>
  BY DEF Leave, Current, history
<1>2. task \in Task /\ task \in Elems(tasks[g]) BY <1>1, ElemsHeadTail DEF Inv, Typed
<1>3. /\ task.id \in RoomIds /\ task.peers \subseteq Conns /\ task.immediate \in BOOLEAN
      /\ \A q \in task.peers : phase[q] = "leaving" \/ q \in failedSend
  BY <1>1, <1>2, TaskFields DEF Inv, LeavesGrounded, Grounded
<1>4. PICK p \in task.peers, t \in SampledNow :
        LET rest == leaveAll(task.id, task.peers \ {p}, task.immediate)
            rs == pruneExpiredLocked(t)
        IN \/ /\ closed
              /\ rooms' = rooms
              /\ Replace(g, rest)
           \/ /\ ~closed /\ ~IsMember(rs, task.id, p)
              /\ rooms' = rs
              /\ Replace(g, closePeers(ExpiredPeers(t)) \o rest)
           \/ /\ ~closed /\ IsMember(rs, task.id, p)
              /\ rooms' = AfterLeave(rs, task.id, p, task.immediate)
              /\ Replace(g, closePeers(ExpiredPeers(t))
                              \o broadcast(task.id, "peer-left")
                              \o (IF rs[task.id].peers = {p} THEN <<>>
                                  ELSE broadcast(task.id, "peer-list"))
                              \o rest)
  BY DEF Leave
<1> DEFINE rest == leaveAll(task.id, task.peers \ {p}, task.immediate)
           rs == pruneExpiredLocked(t)
           E == closePeers(ExpiredPeers(t))
<1>5. /\ RoomsOK(rs) /\ DOMAIN rs \subseteq DOMAIN rooms /\ \A x \in DOMAIN rs : rs[x] = rooms[x]
  BY Pruned DEF Inv, Typed
<1>6. E \in Seq(Task) /\ \A x \in Elems(E) : x.op = "close" BY PruneTasks, ElemsNone
<1>7. E \in Seq(Task) /\ \A x \in Elems(E) : Harmless(x) BY <1>6 DEF Harmless
<1>8. CASE closed /\ rooms' = rooms /\ Replace(g, rest)
  <2> DEFINE pre == <<>>
  <2>1. rest \in Seq(Task)
    <3> DEFINE left == task.peers \ {p}
               id == task.id
               im == task.immediate
    <3>1. left \in SUBSET Conns /\ id \in RoomIds /\ im \in BOOLEAN BY <1>3
    <3> HIDE DEF left, id, im
    <3>2. leaveAll(id, left, im) \in Seq(Task) BY <3>1, LeaveTask
    <3> QED BY <3>2 DEF left, id, im
  <2>2. pre \o rest = rest
    <3> HIDE DEF rest
    <3> QED BY <2>1
  <2>3. pre \in Seq(Task) /\ (\A x \in Elems(pre) : Harmless(x)) /\ Replace(g, pre \o rest)
    BY <1>8, <2>2, ElemsNone
  <2>4. ~Inside(rooms', p) BY <1>8 DEF Inside, Inv, Batch
  <2> HIDE DEF pre
  <2>5. /\ TaskStep /\ JoinShape' /\ tasks' \in [Goroutines -> Seq(Task)]
        /\ \A h \in Goroutines : h # g => tasks'[h] = tasks[h]
    BY <1>1, <2>3, <2>4, LeaveTasks
  <2>6. \A s \in Closers : tasks[s] = <<>> => tasks'[s] = <<>> BY <1>1, <2>5, ClosersTasks
  <2> QED BY <1>1, <1>8, <2>5, <2>6, QuietStep DEF Inv, Typed
<1>9. CASE ~IsMember(rs, task.id, p) /\ rooms' = rs /\ Replace(g, E \o rest)
  <2>1. roomOf[p] = task.id => ~Inside(rooms', p)
    BY <1>5, <1>9 DEF Inside, IsMember, Inv, AtHome
  <2> HIDE DEF E
  <2>2. /\ TaskStep /\ JoinShape' /\ tasks' \in [Goroutines -> Seq(Task)]
        /\ \A x \in Elems(E) : x \in Elems(tasks'[g])
        /\ \A h \in Goroutines : h # g => tasks'[h] = tasks[h]
    BY <1>1, <1>7, <1>9, <2>1, LeaveTasks
  <2>3. \A x \in Elems(closePeers(ExpiredPeers(t))) : x \in Elems(tasks'[g]) BY <2>2 DEF E
  <2> QED BY <1>1, <1>9, <2>2, <2>3, PruneStep
<1>10. ASSUME ~closed, IsMember(rs, task.id, p), rooms' = AfterLeave(rs, task.id, p, task.immediate),
              NEW b \in {<<>>, broadcast(task.id, "peer-list")},
              Replace(g, E \o broadcast(task.id, "peer-left") \o b \o rest)
       PROVE  StepOK
  <2> DEFINE a == broadcast(task.id, "peer-left")
             pre == (E \o a) \o b
             id == task.id
             im == task.immediate
  <2>1. a \in Seq(Task) /\ (\A x \in Elems(a) : Harmless(x)) /\ b \in Seq(Task) /\ \A x \in Elems(b) : Harmless(x)
    <3>1. ASSUME NEW ev \in {"peer-left", "peer-list"}
          PROVE  broadcast(task.id, ev) \in Seq(Task) /\ \A x \in Elems(broadcast(task.id, ev)) : Harmless(x)
      <4>1. id \in RoomIds /\ ev \in Events BY <1>3 DEF Events
      <4> HIDE DEF id
      <4>2. broadcast(id, ev) \in Seq(Task) /\ \A x \in Elems(broadcast(id, ev)) : x.op = "broadcast"
        BY <4>1, BroadcastTask
      <4> QED BY <4>2 DEF Harmless, id
    <3> QED BY <1>10, <3>1, ElemsNone
  <2>2. Replace(g, pre \o rest) BY <1>10
  <2> HIDE DEF E, a
  <2>3. E \o a \in Seq(Task) /\ Elems(E \o a) = Elems(E) \cup Elems(a) BY <1>7, <2>1, ElemsConcat
  <2> DEFINE ea == E \o a
  <2>4. pre \in Seq(Task) /\ Elems(pre) = Elems(ea) \cup Elems(b)
    <3>1. ea \in Seq(Task) BY <2>3
    <3> HIDE DEF ea
    <3>2. ea \o b \in Seq(Task) /\ Elems(ea \o b) = Elems(ea) \cup Elems(b) BY <2>1, <3>1, ElemsConcat
    <3> QED BY <3>2 DEF ea
  <2>5. (\A x \in Elems(pre) : Harmless(x)) /\ \A x \in Elems(E) : x \in Elems(pre)
    BY <1>7, <2>1, <2>3, <2>4
  <2> HIDE DEF rs, pre
  <2>6. im \in BOOLEAN /\ IsMember(rs, id, p) /\ rooms' = AfterLeave(rs, id, p, im) /\ now \in Time
    BY <1>3, <1>10 DEF Inv, Typed
  <2> HIDE DEF id, im
  <2>7. /\ RoomsOK(rooms') /\ DOMAIN rooms' \subseteq DOMAIN rs /\ id \in DOMAIN rs
        /\ id \notin DOMAIN rooms' => rs[id].peers = {p}
        /\ \A x \in DOMAIN rs : x # id => x \in DOMAIN rooms' /\ rooms'[x] = rs[x]
        /\ id \in DOMAIN rooms' => /\ rooms'[id].peers = rs[id].peers \ {p}
                                   /\ rooms'[id].inc = rs[id].inc /\ rooms'[id].expiresAt = rs[id].expiresAt
                                   /\ rooms'[id].expiryAt = rs[id].expiryAt
    BY <1>5, <2>6, LeftRooms
  <2>8. roomOf[p] = task.id => ~Inside(rooms', p)
    <3> SUFFICES ASSUME roomOf[p] = id, NEW x \in DOMAIN rooms', p \in rooms'[x].peers PROVE FALSE
      BY DEF Inside, id
    <3>1. x # id BY <2>7
    <3>2. x \in DOMAIN rooms /\ p \in rooms[x].peers BY <1>5, <2>7, <3>1
    <3> QED BY <3>1, <3>2 DEF Inv, AtHome
  <2>9. /\ TaskStep /\ JoinShape' /\ tasks' \in [Goroutines -> Seq(Task)]
        /\ \A x \in Elems(pre) : x \in Elems(tasks'[g])
        /\ \A h \in Goroutines : h # g => tasks'[h] = tasks[h]
    BY <1>1, <2>2, <2>4, <2>5, <2>8, LeaveTasks
  <2>10. \A x \in Elems(closePeers(ExpiredPeers(t))) : x \in Elems(tasks'[g]) BY <2>5, <2>9 DEF E
  <2>11. MemberStep
    <3>1. ASSUME NEW x \in DOMAIN rs, NEW q \in rooms[x].peers
          PROVE  Inside(rooms', q) \/ phase'[q] = "leaving" \/ q \in failedSend'
      <4>1. CASE q = p BY <1>1, <1>3, <4>1
      <4>2. CASE q # p /\ x # id BY <1>5, <2>7, <4>2 DEF Inside
      <4>3. CASE q # p /\ x = id BY <1>5, <2>7, <4>3 DEF Inside
      <4> QED BY <4>1, <4>2, <4>3
    <3> QED BY <1>1, <2>10, <3>1, PrunedMembers DEF rs
  <2>12. RoomsStep
    <3>1. ASSUME NEW x \in DOMAIN rooms'
          PROVE  x \in DOMAIN rooms /\ SameRoom(rooms[x], rooms'[x]) /\ rooms'[x].peers \subseteq rooms[x].peers
      <4>1. CASE x # id BY <1>5, <2>7, <4>1 DEF SameRoom
      <4>2. CASE x = id BY <1>5, <2>7, <4>2 DEF SameRoom
      <4> QED BY <4>1, <4>2
    <3> QED BY <1>1, <3>1 DEF RoomsStep
  <2>13. CloserStep BY <1>1, <1>10, <2>9, ClosersApart
  <2>14. ConnStep BY <1>1, ConnsSame
  <2>15. TimerStep BY <1>1, TimersSame
  <2>16. Typed' BY <1>1, <2>7, <2>9 DEF Inv, Typed
  <2> QED BY <2>9, <2>11, <2>12, <2>13, <2>14, <2>15, <2>16 DEF StepOK
<1> QED
  <2>1. CASE closed /\ rooms' = rooms /\ Replace(g, rest) BY <1>8, <2>1
  <2>2. CASE ~closed /\ ~IsMember(rs, task.id, p) /\ rooms' = rs /\ Replace(g, E \o rest) BY <1>9, <2>2
  <2>3. CASE /\ ~closed /\ IsMember(rs, task.id, p)
             /\ rooms' = AfterLeave(rs, task.id, p, task.immediate)
             /\ Replace(g, E \o broadcast(task.id, "peer-left")
                             \o (IF rs[task.id].peers = {p} THEN <<>> ELSE broadcast(task.id, "peer-list"))
                             \o rest)
    <3> DEFINE b == IF rs[task.id].peers = {p} THEN <<>> ELSE broadcast(task.id, "peer-list")
    <3>1. b \in {<<>>, broadcast(task.id, "peer-list")} OBVIOUS
    <3>2. Replace(g, E \o broadcast(task.id, "peer-left") \o b \o rest) BY <2>3
    <3> HIDE DEF b
    <3> QED BY <1>10, <2>3, <3>1, <3>2
  <2> QED BY <1>4, <2>1, <2>2, <2>3

-----------------------------------------------------------------------------
(* The timers: no goroutine moves.                                         *)
LEMMA ClockStep ==
  ASSUME Inv, RoomsOK(rooms'), DOMAIN rooms' \subseteq DOMAIN rooms, RoomsStep, MemberStep, TimerStep,
         callbacks' \subseteq Callback, detached' \subseteq Conns, now' \in Time,
         UNCHANGED <<closed, closeDone, created, conn, phase, roomOf, tasks, failedSend, shutdown>>
  PROVE  StepOK
<1>1. TaskStep /\ JoinShape' BY SameTasks
<1>2. ConnStep BY ConnsSame
<1>3. CloserStep BY DEF CloserStep, Inv, Batch
<1>4. Typed' BY DEF Inv, Typed
<1> QED BY <1>1, <1>2, <1>3, <1>4 DEF StepOK

LEMMA TickStep == ASSUME Inv, Tick PROVE StepOK
<1>1. /\ now < MaxTime /\ now' = now + 1
      /\ UNCHANGED <<rooms, closed, closeDone, created, callbacks, detached, conn, phase, roomOf, tasks,
                     failedSend, shutdown>>
  BY DEF Tick, manager, history
<1>2. now' \in Time /\ now <= now' BY <1>1, P2PAssumption DEF Inv, Typed, Time
<1>3. RoomsOK(rooms') /\ RoomsStep /\ MemberStep BY <1>1, RoomsSame
<1>4. TimerStep BY <1>1, <1>2 DEF TimerStep
<1> QED BY <1>1, <1>2, <1>3, <1>4, ClockStep DEF Inv, Typed

(* A timer that fires is cleared and leaves a callback behind.             *)
LEMMA FiresStep ==
  ASSUME Inv, NEW id \in DOMAIN rooms, NEW field \in {"cleanupAt", "expiryAt"}, NEW cb \in Callback,
         rooms' = (IF field = "cleanupAt" THEN [rooms EXCEPT ![id].cleanupAt = Never]
                   ELSE [rooms EXCEPT ![id].expiryAt = Never]),
         callbacks' = callbacks \cup {cb}, cb.id = id, cb.inc = rooms[id].inc,
         cb.kind = "expire" => rooms[id].expiresAt <= now,
         UNCHANGED <<closed, closeDone, detached, conn, phase, roomOf, tasks, now, created, failedSend, shutdown>>
  PROVE  StepOK
<1>1. /\ RoomsOK(rooms') /\ DOMAIN rooms' = DOMAIN rooms
      /\ \A x \in DOMAIN rooms : /\ rooms'[x].peers = rooms[x].peers /\ rooms'[x].inc = rooms[x].inc
                                 /\ rooms'[x].expiresAt = rooms[x].expiresAt
                                 /\ rooms'[x].expiryAt \in {rooms[x].expiryAt, Never}
  <2>1. RoomsOK(rooms) BY DEF Inv, Typed
  <2>2. CASE field = "cleanupAt"
    <3>1. rooms' = [rooms EXCEPT ![id].cleanupAt = Never] BY <2>2
    <3>2. "cleanupAt" \in {"cleanupAt", "expiryAt"} OBVIOUS
    <3> QED BY ONLY <2>1, <3>1, <3>2, Uncleaned, id \in DOMAIN rooms
  <2>3. CASE field = "expiryAt"
    <3>1. rooms' = [rooms EXCEPT ![id].expiryAt = Never] BY <2>3
    <3>2. "expiryAt" \in {"cleanupAt", "expiryAt"} OBVIOUS
    <3> QED BY ONLY <2>1, <3>1, <3>2, Uncleaned, id \in DOMAIN rooms
  <2> QED BY <2>2, <2>3
<1>2. RoomsStep BY <1>1 DEF RoomsStep, SameRoom
<1>3. MemberStep BY <1>1 DEF MemberStep, Inside
<1>4. TimerStep
  <2>1. cb.inc <= created BY DEF Inv, Timers
  <2>2. cb.kind = "expire" => rooms'[cb.id].expiresAt <= now BY <1>1
  <2>3. now <= now' BY DEF Inv, Typed, Time
  <2> QED BY <2>1, <2>2, <2>3 DEF TimerStep
<1>5. callbacks' \subseteq Callback /\ detached' \subseteq Conns /\ now' \in Time BY DEF Inv, Typed
<1> QED BY <1>1, <1>2, <1>3, <1>4, <1>5, ClockStep

LEMMA ExpiryFiresStep == ASSUME Inv, NEW id \in RoomIds, ExpiryFires(id) PROVE StepOK
<1> DEFINE cb == [kind |-> "expire", id |-> id, inc |-> rooms[id].inc, at |-> rooms[id].expiryAt]
           field == "expiryAt"
<1>1. /\ id \in DOMAIN rooms /\ rooms[id].expiryAt # Never /\ rooms[id].expiryAt <= now
      /\ callbacks' = callbacks \cup {cb} /\ rooms' = [rooms EXCEPT ![id].expiryAt = Never]
      /\ UNCHANGED <<closed, closeDone, detached, conn, phase, roomOf, tasks, now, created, failedSend, shutdown>>
  BY DEF ExpiryFires, history
<1>2. /\ rooms[id].inc \in 1 .. MaxCreates /\ rooms[id].expiresAt \in Nat
      /\ rooms[id].expiryAt \in Nat \cup {Never}
  BY <1>1, RoomFields DEF Inv, Typed, RoomsOK
<1>3. cb \in Callback /\ cb.id = id /\ cb.inc = rooms[id].inc BY <1>1, <1>2 DEF Callback
<1>4. rooms[id].expiresAt <= now
  <2>1. rooms[id].expiresAt <= rooms[id].expiryAt /\ now \in Nat BY <1>1 DEF Inv, Timers, Typed, Time
  <2> QED BY <1>1, <1>2, <2>1
<1>5. field \in {"cleanupAt", "expiryAt"}
      /\ rooms' = (IF field = "cleanupAt" THEN [rooms EXCEPT ![id].cleanupAt = Never]
                   ELSE [rooms EXCEPT ![id].expiryAt = Never])
  BY <1>1
<1> HIDE DEF cb, field
<1> QED BY <1>1, <1>3, <1>4, <1>5, FiresStep

LEMMA CleanupFiresStep == ASSUME Inv, NEW id \in RoomIds, CleanupFires(id) PROVE StepOK
<1> DEFINE cb == [kind |-> "cleanup", id |-> id, inc |-> rooms[id].inc, at |-> rooms[id].cleanupAt]
           field == "cleanupAt"
<1>1. /\ id \in DOMAIN rooms /\ rooms[id].cleanupAt # Never
      /\ callbacks' = callbacks \cup {cb} /\ rooms' = [rooms EXCEPT ![id].cleanupAt = Never]
      /\ UNCHANGED <<closed, closeDone, detached, conn, phase, roomOf, tasks, now, created, failedSend, shutdown>>
  BY DEF CleanupFires, history
<1>2. rooms[id].inc \in 1 .. MaxCreates /\ rooms[id].cleanupAt \in Nat \cup {Never}
  BY <1>1 DEF Inv, Typed, RoomsOK, RoomState
<1>3. cb \in Callback /\ cb.id = id /\ cb.inc = rooms[id].inc /\ cb.kind # "expire" BY <1>1, <1>2 DEF Callback
<1>5. field \in {"cleanupAt", "expiryAt"}
      /\ rooms' = (IF field = "cleanupAt" THEN [rooms EXCEPT ![id].cleanupAt = Never]
                   ELSE [rooms EXCEPT ![id].expiryAt = Never])
  BY <1>1
<1> HIDE DEF cb, field
<1> QED BY <1>1, <1>3, <1>5, FiresStep

LEMMA RunCallbackStep == ASSUME Inv, NEW cb \in callbacks, RunCallback(cb) PROVE StepOK
<1>1. /\ callbacks' = callbacks \ {cb}
      /\ UNCHANGED <<closed, closeDone, conn, phase, roomOf, tasks, now, created, failedSend, shutdown>>
  BY DEF RunCallback, history
<1>2. callbacks' \subseteq Callback /\ now' \in Time /\ detached \subseteq Conns /\ RoomsOK(rooms)
  BY <1>1 DEF Inv, Typed
<1>3. TimerStep BY <1>1 DEF TimerStep, Inv, Typed, Time
<1>4. CASE Removes(cb)
  <2> DEFINE id == cb.id
             D == DOMAIN rooms \ {id}
  <2>1. id \in DOMAIN rooms BY <1>4 DEF Removes
  <2>2. rooms' = [r \in D |-> rooms[r]] /\ detached' = detached \cup rooms[id].peers
    BY <1>4 DEF RunCallback, Without
  <2>3. D \in SUBSET DOMAIN rooms OBVIOUS
  <2>4. \A r \in DOMAIN rooms : r # id => r \in D OBVIOUS
  <2> HIDE DEF D
  <2>5. RoomsOK(rooms') /\ DOMAIN rooms' = D /\ \A x \in D : rooms'[x] = rooms[x]
    BY <1>2, <2>2, <2>3, Keeps
  <2>6. rooms[id].peers \subseteq Conns BY <1>2, <2>1, RoomFields DEF RoomsOK
  <2>7. RoomsStep BY <1>1, <2>3, <2>5 DEF RoomsStep, SameRoom
  <2>8. MemberStep
    <3>1. ASSUME NEW c \in Conns, Inside(rooms, c) PROVE Inside(rooms', c) \/ Closing(c)'
      <4>1. PICK x \in DOMAIN rooms : c \in rooms[x].peers BY <3>1 DEF Inside
      <4>2. CASE x = id BY <2>2, <4>1, <4>2 DEF Closing
      <4>3. CASE x # id BY <2>4, <2>5, <4>1, <4>3 DEF Inside
      <4> QED BY <4>2, <4>3
    <3> QED BY <2>2, <3>1 DEF MemberStep
  <2>9. DOMAIN rooms' \subseteq DOMAIN rooms /\ detached' \subseteq Conns BY <1>2, <2>2, <2>3, <2>5, <2>6
  <2> QED BY <1>1, <1>2, <1>3, <2>5, <2>7, <2>8, <2>9, ClockStep
<1>5. CASE ~Removes(cb)
  <2>1. UNCHANGED <<rooms, detached>> BY <1>5 DEF RunCallback
  <2>2. RoomsOK(rooms') /\ RoomsStep /\ MemberStep BY <1>1, <2>1, RoomsSame
  <2> QED BY <1>1, <1>2, <1>3, <2>1, <2>2, ClockStep
<1> QED BY <1>4, <1>5

-----------------------------------------------------------------------------
(* Close: what the other steps leave alone.                                *)
LEMMA MembersInside ==
  ASSUME Inv PROVE Members \subseteq Conns /\ \A c : c \in Members <=> Inside(rooms, c)
<1>1. \A id \in DOMAIN rooms : rooms[id].peers \subseteq Conns BY RoomFields DEF Inv, Typed, RoomsOK
<1> QED BY <1>1 DEF Members, Inside

LEMMA CloserKeeps ==
  ASSUME Inv, NEW s \in Closers, NEW ph \in {"closing", "returned"}, phase' = [phase EXCEPT ![s] = ph],
         tasks' \in [Goroutines -> Seq(Task)], \A h \in Goroutines : h # s => tasks'[h] = tasks[h],
         TaskStep, RoomsStep, RoomsOK(rooms'), MemberStep, closed' \in BOOLEAN, closeDone' \in BOOLEAN,
         shutdown' \subseteq Conns, Batch',
         UNCHANGED <<callbacks, detached, conn, roomOf, now, created, failedSend>>
  PROVE  Inv'
<1>1. s \in Goroutines /\ s \notin Conns /\ Conns \subseteq Goroutines BY InGoroutines, P2PAssumption
<1>2. \A c \in Conns : phase'[c] = phase[c] /\ tasks'[c] = tasks[c] BY <1>1 DEF Inv, Typed
<1>3. phase' \in [Goroutines -> {"idle", "joining", "reading", "leaving", "closing", "returned"}]
  BY <1>1 DEF Inv, Typed
<1>4. Typed' BY <1>3 DEF Inv, Typed
<1>5. JoinShape' BY <1>2 DEF Inv, JoinShape
<1>6. ConnStep
  <2>1. \A d \in Conns : phase[d] # "idle" => roomOf[d] \in RoomIds BY DEF Inv, AtHome
  <2> QED BY <1>2, <2>1 DEF ConnStep, Attending
<1>7. TimerStep BY TimersSame
<1>8. AtHome' /\ LeavesGrounded' /\ LeavePending' /\ Attended' /\ Timers' BY <1>4, <1>6, <1>7, Steps
<1> QED BY <1>4, <1>5, <1>8 DEF Inv

LEMMA CloseFirstKeeps == ASSUME Inv, NEW s \in Closers, CloseFirst(s) PROVE Inv'
<1>1. /\ phase[s] = "idle" /\ ~closed /\ closed' = TRUE /\ rooms' = [id \in {} |-> 0]
      /\ shutdown' = Members /\ phase' = [phase EXCEPT ![s] = "closing"] /\ Start(s, ShutdownBatch)
      /\ UNCHANGED <<closeDone, callbacks, detached, conn, roomOf, now, created, failedSend>>
  BY DEF CloseFirst
<1>2. Idle(s) /\ s \in Goroutines BY <1>1, InGoroutines DEF Inv, Batch, Idle
<1>3. Members \in SUBSET Conns /\ \A c : c \in Members <=> Inside(rooms, c) BY MembersInside
<1> DEFINE ps == Members
           ts == closePeers(ps)
<1>4. Start(s, ts) BY <1>1 DEF ShutdownBatch
<1>5. /\ ts \in Seq(Task) /\ \A x \in Elems(ts) : x = [op |-> "close", peers |-> ps]
      /\ ps # {} => [op |-> "close", peers |-> ps] \in Elems(ts)
  BY <1>3, CloseTask
<1> HIDE DEF ps
<1>6. (\A x \in Elems(ts) : Harmless(x)) /\ \A q \in ps : HasClose(ts, q) BY <1>5 DEF HasClose, Harmless
<1> HIDE DEF ts
<1>7. /\ tasks' \in [Goroutines -> Seq(Task)] /\ tasks'[s] = ts
      /\ \A h \in Goroutines : h # s => tasks'[h] = tasks[h]
  BY <1>2, <1>4, <1>5, Started DEF Inv
<1>8. TaskStep BY <1>2, <1>4, <1>5, <1>6, TasksStarted, HarmlessGrounded
<1>9. RoomsOK(rooms') /\ DOMAIN rooms' = {} BY <1>1, NoRooms
<1>10. RoomsStep BY <1>1, <1>9 DEF RoomsStep
<1>11. MemberStep
  <2>1. \A c \in Conns : Inside(rooms, c) => HasClose(tasks'[s], c) BY <1>3, <1>6, <1>7 DEF ps
  <2> QED BY <1>1, <1>2, <2>1 DEF MemberStep, Closing
<1>12. Batch'
  <2>1. ~closeDone' BY <1>1 DEF Inv, Batch
  <2>2. s \notin Conns BY P2PAssumption
  <2>3. ASSUME NEW q \in shutdown' PROVE phase'[q] # "idle"
    <3>1. Inside(rooms, q) /\ q \in Conns BY <1>1, <1>3, <2>3
    <3>2. phase[q] # "idle" BY <3>1 DEF Inside, Inv, AtHome
    <3> QED BY <1>1, <2>2, <3>1, <3>2, InGoroutines DEF Inv, Typed
  <2>4. ASSUME NEW r \in Closers
        PROVE  /\ phase'[r] = "idle" => tasks'[r] = <<>>
               /\ phase'[r] = "closing" =>
                    closed' /\ \A p \in shutdown' : conn'[p] = "closed" \/ HasClose(tasks'[r], p)
               /\ phase'[r] = "returned" => closeDone'
    <3>1. CASE r = s
      <4>1. phase'[s] = "closing" BY <1>1, <1>2 DEF Inv, Typed
      <4>2. \A p \in shutdown' : HasClose(tasks'[s], p) BY <1>1, <1>6, <1>7 DEF ps
      <4> QED BY <1>1, <3>1, <4>1, <4>2
    <3>2. CASE r # s
      <4>1. phase'[r] = phase[r] /\ tasks'[r] = tasks[r] BY <1>1, <1>7, <3>2, InGoroutines DEF Inv, Typed
      <4> QED BY <1>1, <4>1 DEF Inv, Batch
    <3> QED BY <3>1, <3>2
  <2> QED BY <1>9, <2>1, <2>3, <2>4 DEF Batch
<1>13. closed' \in BOOLEAN /\ closeDone' \in BOOLEAN /\ shutdown' \subseteq Conns
  BY <1>1, <1>3 DEF Inv, Typed
<1> DEFINE ph == "closing"
<1>14. ph \in {"closing", "returned"} /\ phase' = [phase EXCEPT ![s] = ph] BY <1>1
<1> HIDE DEF ph
<1> QED BY <1>1, <1>7, <1>8, <1>9, <1>10, <1>11, <1>12, <1>13, <1>14, CloserKeeps

(* The end of a call of Close, the first one's or another's.               *)
LEMMA ReturnedKeeps ==
  ASSUME Inv, NEW s \in Closers, phase' = [phase EXCEPT ![s] = "returned"],
         closeDone' = TRUE, closed, \A p \in shutdown : conn[p] = "closed",
         UNCHANGED <<rooms, closed, callbacks, detached, conn, roomOf, tasks, now, created, failedSend, shutdown>>
  PROVE  Inv'
<1>1. TaskStep BY DEF TaskStep, Inv, Typed
<1>2. RoomsStep /\ RoomsOK(rooms') /\ MemberStep BY RoomsSame
<1>3. Batch'
  <2>1. \A p \in shutdown' : phase'[p] # "idle"
    <3>1. \A p \in shutdown : phase[p] # "idle" /\ p \in Conns BY DEF Inv, Batch, Typed
    <3> QED BY <3>1, InGoroutines, P2PAssumption DEF Inv, Typed
  <2>2. ASSUME NEW r \in Closers
        PROVE  /\ phase'[r] = "idle" => tasks'[r] = <<>>
               /\ phase'[r] = "closing" =>
                    closed' /\ \A p \in shutdown' : conn'[p] = "closed" \/ HasClose(tasks'[r], p)
    <3>1. CASE r = s BY <3>1, InGoroutines DEF Inv, Typed
    <3>2. CASE r # s
      <4>1. phase'[r] = phase[r] BY <3>2, InGoroutines DEF Inv, Typed
      <4> QED BY <4>1 DEF Inv, Batch
    <3> QED BY <3>1, <3>2
  <2>3. closed' /\ DOMAIN rooms' = {} BY DEF Inv, Batch
  <2> QED BY <2>1, <2>2, <2>3 DEF Batch
<1>4. tasks' \in [Goroutines -> Seq(Task)] /\ closed' \in BOOLEAN /\ closeDone' \in BOOLEAN /\ shutdown' \subseteq Conns
  BY DEF Inv, Typed
<1> DEFINE ph == "returned"
<1>5. ph \in {"closing", "returned"} /\ phase' = [phase EXCEPT ![s] = ph] OBVIOUS
<1> HIDE DEF ph
<1> QED BY <1>1, <1>2, <1>3, <1>4, <1>5, CloserKeeps

LEMMA CloseReturnsKeeps == ASSUME Inv, NEW s \in Closers, CloseReturns(s) PROVE Inv'
<1>1. /\ phase[s] = "closing" /\ Idle(s) /\ closeDone' = TRUE /\ phase' = [phase EXCEPT ![s] = "returned"]
      /\ UNCHANGED <<rooms, closed, callbacks, detached, conn, roomOf, tasks, now, created, failedSend, shutdown>>
  BY DEF CloseReturns, history
<1>2. \A p : ~HasClose(tasks[s], p)
  <2>1. Elems(tasks[s]) = {} BY <1>1, ElemsNone DEF Idle
  <2> QED BY <2>1 DEF HasClose
<1>3. closed /\ \A p \in shutdown : conn[p] = "closed" BY <1>1, <1>2 DEF Inv, Batch
<1> QED BY <1>1, <1>3, ReturnedKeeps

LEMMA CloseAgainKeeps == ASSUME Inv, NEW s \in Closers, CloseAgain(s) PROVE Inv'
<1>1. /\ closed /\ closeDone /\ phase' = [phase EXCEPT ![s] = "returned"]
      /\ UNCHANGED <<rooms, closed, closeDone, created, callbacks, detached, conn, roomOf, tasks, now,
                     failedSend, shutdown>>
  BY DEF CloseAgain, manager, history
<1>2. closeDone' = TRUE /\ \A p \in shutdown : conn[p] = "closed" BY <1>1 DEF Inv, Batch, Typed
<1> QED BY <1>1, <1>2, ReturnedKeeps

-----------------------------------------------------------------------------
(* The invariant holds in every reachable state.                           *)
LEMMA InitInv == Init => Inv
<1> SUFFICES ASSUME Init PROVE Inv OBVIOUS
<1>1. RoomsOK(rooms) /\ DOMAIN rooms = {} BY NoRooms DEF Init
<1>2. \A g \in Goroutines : tasks[g] = <<>> /\ Elems(tasks[g]) = {} /\ phase[g] = "idle"
  BY ElemsNone DEF Init
<1>3. Typed
  <2>1. tasks \in [Goroutines -> Seq(Task)] BY ElemsNone DEF Init
  <2>2. now \in Time /\ created \in 0 .. MaxCreates BY P2PAssumption DEF Init, Time
  <2>3. /\ conn \in [Conns -> {"none", "open", "closed"}]
        /\ phase \in [Goroutines -> {"idle", "joining", "reading", "leaving", "closing", "returned"}]
        /\ roomOf \in [Conns -> RoomIds \cup {NoRoom}]
    BY DEF Init
  <2> QED BY <1>1, <2>1, <2>2, <2>3 DEF Init, Typed
<1>4. AtHome /\ JoinShape /\ LeavesGrounded /\ LeavePending /\ Attended
  BY <1>1, <1>2, InGoroutines DEF AtHome, JoinShape, LeavesGrounded, LeavePending, Attended, Attending
<1>5. Batch /\ Timers BY <1>1, <1>2, InGoroutines DEF Init, Batch, Timers
<1> QED BY <1>3, <1>4, <1>5 DEF Inv

LEMMA NextInv == Inv /\ [Next]_vars => Inv'
<1> SUFFICES ASSUME Inv, [Next]_vars PROVE Inv' OBVIOUS
<1>1. ASSUME NEW g \in Requests, Create(g) \/ Status(g) PROVE Inv'
  BY <1>1, CreateStep, StatusStep, StepKeeps
<1>2. ASSUME NEW c \in Conns, NEW id \in RoomIds,
             JoinRefused(c, id) \/ JoinWithoutPeerId(c, id) \/ Join(c, id)
      PROVE  Inv'
  BY <1>2, JoinRefusedStep, JoinWithoutPeerIdStep, JoinStep, StepKeeps
<1>3. ASSUME NEW c \in Conns,
             JoinSendsJoined(c) \/ Relay(c) \/ ReadFails(c) \/ ClientLeaves(c) \/ ClientDrops(c)
      PROVE  Inv'
  BY <1>3, JoinSendsJoinedStep, RelayStep, ReadFailsStep, ClientLeavesStep, ClientDropsStep, StepKeeps
<1>4. ASSUME NEW g \in Goroutines, Internal(g) PROVE Inv'
  BY <1>4, RoomCountStep, LeaveStep, BroadcastStep, SendStep, ClosePeerStep, StepKeeps DEF Internal
<1>5. ASSUME NEW id \in RoomIds, ExpiryFires(id) \/ CleanupFires(id) PROVE Inv'
  BY <1>5, ExpiryFiresStep, CleanupFiresStep, StepKeeps
<1>6. ASSUME NEW cb \in callbacks, RunCallback(cb) PROVE Inv' BY <1>6, RunCallbackStep, StepKeeps
<1>7. ASSUME NEW p \in detached, CloseDetached(p) PROVE Inv' BY <1>7, CloseDetachedStep, StepKeeps
<1>8. ASSUME NEW s \in Closers, CloseFirst(s) \/ CloseReturns(s) \/ CloseAgain(s) PROVE Inv'
  BY <1>8, CloseFirstKeeps, CloseReturnsKeeps, CloseAgainKeeps
<1>9. CASE Tick BY <1>9, TickStep, StepKeeps
<1>10. CASE UNCHANGED vars
  BY <1>10 DEF vars, Inv, Typed, AtHome, JoinShape, LeavesGrounded, Grounded, LeavePending, Attended, Closing,
               Batch, Timers
<1> QED BY <1>1, <1>2, <1>3, <1>4, <1>5, <1>6, <1>7, <1>8, <1>9, <1>10 DEF Next

LEMMA InvHolds == Spec => []Inv
  BY InitInv, NextInv, PTL DEF Spec

-----------------------------------------------------------------------------
(* What the invariant gives.                                               *)
LEMMA InvType == Inv => TypeOK
<1> SUFFICES ASSUME Inv PROVE TypeOK OBVIOUS
<1>1. \A cb \in callbacks : cb.id \in RoomIds /\ cb.inc \in 1 .. MaxCreates BY DEF Inv, Typed, Callback
<1>2. ASSUME NEW g \in Goroutines, NEW i \in 1 .. Len(tasks[g]) PROVE tasks[g][i] \in Task
  <2>1. tasks[g] \in Seq(Task) BY DEF Inv, Typed
  <2> QED BY <1>2, <2>1
<1> QED BY <1>1, <1>2 DEF Inv, Typed, RoomsOK, TypeOK

LEMMA InvNoGhost == Inv => NoGhostPeer
<1> SUFFICES ASSUME Inv, NEW c \in Conns, phase[c] = "leaving", Idle(c) PROVE c \notin Members
  BY DEF NoGhostPeer
<1>1. Elems(tasks[c]) = {} BY ElemsNone DEF Idle
<1>2. ~HasLeave(tasks[c], roomOf[c], c) BY <1>1 DEF HasLeave
<1> QED BY <1>2, MembersInside DEF Inv, LeavePending

LEMMA InvNoOrphan == Inv => NoOrphanConnection
<1> SUFFICES ASSUME Inv, NEW c \in Conns, phase[c] = "reading", conn[c] = "open", c \notin failedSend
             PROVE  c \in Members \/ BeingClosed(c)
  BY DEF NoOrphanConnection
<1>1. Inside(rooms, c) \/ Closing(c) BY DEF Inv, Attended, Attending
<1>2. CASE Inside(rooms, c) BY <1>2, MembersInside
<1>3. CASE Closing(c) BY <1>3 DEF Closing, BeingClosed, HasClose, Elems
<1> QED BY <1>1, <1>2, <1>3

LEMMA InvBarrier == Inv => ShutdownBarrier
  BY DEF Inv, Batch, ShutdownBarrier

(* A room goes only when it expired or when nobody is left that stays.     *)
RoomsKept ==
  \A id \in DOMAIN rooms :
    Removed(id) /\ ~closed' /\ now < rooms[id].expiresAt
      => \A p \in rooms[id].peers : phase[p] = "leaving" \/ p \in failedSend

LEMMA KeptSame == ASSUME rooms' = rooms PROVE RoomsKept
  BY DEF RoomsKept, Removed

LEMMA KeptPruning ==
  ASSUME Inv, NEW t \in SampledNow,
         \A id \in DOMAIN pruneExpiredLocked(t) : id \in DOMAIN rooms' /\ rooms'[id].inc = rooms[id].inc
  PROVE  RoomsKept
<1> SUFFICES ASSUME NEW id \in DOMAIN rooms, id \notin DOMAIN pruneExpiredLocked(t), now < rooms[id].expiresAt
             PROVE  FALSE
  BY DEF RoomsKept, Removed
<1>1. rooms[id].expiresAt <= now BY Pruned DEF Inv, Typed
<1>2. rooms[id].expiresAt \in Nat /\ now \in Nat BY RoomFields DEF Inv, Typed, RoomsOK, Time
<1> QED BY <1>1, <1>2

LEMMA KeptPruned ==
  ASSUME Inv, NEW t \in SampledNow, rooms' = pruneExpiredLocked(t) PROVE RoomsKept
<1>1. \A id \in DOMAIN rooms' : rooms'[id] = rooms[id] BY Pruned DEF Inv, Typed
<1> QED BY <1>1, KeptPruning

LEMMA KeptJoined ==
  ASSUME Inv, NEW c \in Conns, NEW id \in RoomIds,
         JoinRefused(c, id) \/ JoinWithoutPeerId(c, id) \/ Join(c, id)
  PROVE  RoomsKept
<1>1. ASSUME NEW t \in SampledNow, HasSlot(pruneExpiredLocked(t), id),
             rooms' = [pruneExpiredLocked(t) EXCEPT ![id].cleanupAt = Never]
               \/ rooms' = [pruneExpiredLocked(t) EXCEPT ![id].cleanupAt = Never, ![id].peers = @ \cup {c}]
      PROVE  RoomsKept
  <2> DEFINE rs == pruneExpiredLocked(t)
  <2>1. RoomsOK(rs) /\ \A x \in DOMAIN rs : rs[x] = rooms[x] BY Pruned DEF Inv, Typed
  <2>2. id \in DOMAIN rs BY <1>1 DEF HasSlot
  <2> HIDE DEF rs
  <2>3. DOMAIN rooms' = DOMAIN rs /\ \A x \in DOMAIN rs : rooms'[x].inc = rs[x].inc
    <3>1. rs[id] \in RoomState /\ rs = [x \in DOMAIN rs |-> rs[x]] BY <2>1, <2>2 DEF RoomsOK
    <3>2. rooms' = [rs EXCEPT ![id].cleanupAt = Never]
            \/ rooms' = [rs EXCEPT ![id].cleanupAt = Never, ![id].peers = @ \cup {c}]
      BY <1>1 DEF rs
    <3> QED BY <2>2, <3>1, <3>2 DEF RoomState
  <2> QED BY <2>1, <2>3, KeptPruning DEF rs
<1> QED BY <1>1, KeptSame, KeptPruned DEF JoinRefused, JoinWithoutPeerId, Join

LEMMA KeptCreated == ASSUME Inv, NEW g \in Requests, Create(g) PROVE RoomsKept
<1>1. PICK t \in SampledNow, id \in RoomIds :
        /\ id \notin DOMAIN pruneExpiredLocked(t)
        /\ rooms' = [r \in DOMAIN pruneExpiredLocked(t) \cup {id} |-> IF r = id THEN NewRoom(t) ELSE rooms[r]]
  BY DEF Create
<1> QED BY <1>1, KeptPruning

LEMMA KeptLeft == ASSUME Inv, NEW g \in Goroutines, Leave(g) PROVE RoomsKept
<1> DEFINE task == Head(tasks[g])
<1>1. tasks[g] # <<>> /\ task.op = "leave" /\ UNCHANGED <<phase, failedSend, closed>>
  BY DEF Leave, Current, history
<1>2. task \in Task /\ task \in Elems(tasks[g]) BY <1>1, ElemsHeadTail DEF Inv, Typed
<1>3. task.immediate \in BOOLEAN /\ \A q \in task.peers : phase[q] = "leaving" \/ q \in failedSend
  BY <1>1, <1>2, TaskFields DEF Inv, LeavesGrounded, Grounded
<1>4. PICK p \in task.peers, t \in SampledNow :
        \/ rooms' = rooms
        \/ rooms' = pruneExpiredLocked(t)
        \/ /\ IsMember(pruneExpiredLocked(t), task.id, p)
           /\ rooms' = AfterLeave(pruneExpiredLocked(t), task.id, p, task.immediate)
  BY DEF Leave
<1>5. ASSUME IsMember(pruneExpiredLocked(t), task.id, p),
             rooms' = AfterLeave(pruneExpiredLocked(t), task.id, p, task.immediate)
      PROVE  RoomsKept
  <2> DEFINE rs == pruneExpiredLocked(t)
             id == task.id
             im == task.immediate
  <2>1. /\ RoomsOK(rs) /\ \A x \in DOMAIN rs : rs[x] = rooms[x]
        /\ \A x \in DOMAIN rooms \ DOMAIN rs : rooms[x].expiresAt <= now
    BY Pruned DEF Inv, Typed
  <2>2. IsMember(rs, id, p) /\ rooms' = AfterLeave(rs, id, p, im) /\ im \in BOOLEAN /\ now \in Time
    BY <1>3, <1>5 DEF Inv, Typed
  <2> HIDE DEF rs, id, im
  <2>3. /\ id \notin DOMAIN rooms' => rs[id].peers = {p}
        /\ id \in DOMAIN rs
        /\ \A x \in DOMAIN rs : x # id => x \in DOMAIN rooms' /\ rooms'[x] = rs[x]
        /\ id \in DOMAIN rooms' => rooms'[id].inc = rs[id].inc
    BY <2>1, <2>2, LeftRooms
  <2> SUFFICES ASSUME NEW x \in DOMAIN rooms, Removed(x), now < rooms[x].expiresAt, NEW q \in rooms[x].peers
               PROVE  phase[q] = "leaving" \/ q \in failedSend
    BY DEF RoomsKept
  <2>4. x \in DOMAIN rs
    <3>1. rooms[x].expiresAt \in Nat /\ now \in Nat BY RoomFields DEF Inv, Typed, RoomsOK, Time
    <3> QED BY <2>1, <3>1
  <2>5. x = id /\ x \notin DOMAIN rooms' BY <2>1, <2>3, <2>4 DEF Removed
  <2>6. q = p BY <2>1, <2>3, <2>5
  <2> QED BY <1>3, <2>6
<1> QED BY <1>4, <1>5, KeptSame, KeptPruned

LEMMA KeptCallback == ASSUME Inv, NEW cb \in callbacks, RunCallback(cb) PROVE RoomsKept
<1>1. CASE ~Removes(cb) BY <1>1, KeptSame DEF RunCallback
<1>2. CASE Removes(cb)
  <2>1. /\ cb.id \in DOMAIN rooms /\ rooms[cb.id].inc = cb.inc
        /\ cb.kind = "cleanup" => rooms[cb.id].peers = {}
        /\ \A r \in DOMAIN rooms : r # cb.id => r \in DOMAIN rooms' /\ rooms'[r] = rooms[r]
    BY <1>2 DEF RunCallback, Removes, Without
  <2>2. cb.kind \in {"expire", "cleanup"} BY DEF Inv, Typed, Callback
  <2>3. cb.kind = "expire" => rooms[cb.id].expiresAt <= now BY <2>1 DEF Inv, Timers
  <2>4. rooms[cb.id].expiresAt \in Nat /\ now \in Nat BY <2>1, RoomFields DEF Inv, Typed, RoomsOK, Time
  <2> SUFFICES ASSUME NEW x \in DOMAIN rooms, Removed(x), now < rooms[x].expiresAt, NEW q \in rooms[x].peers
               PROVE  FALSE
    BY DEF RoomsKept
  <2>5. x = cb.id BY <2>1 DEF Removed
  <2> QED BY <2>1, <2>2, <2>3, <2>4, <2>5
<1> QED BY <1>1, <1>2

LEMMA KeptFired ==
  ASSUME Inv, NEW id \in RoomIds, ExpiryFires(id) \/ CleanupFires(id) PROVE RoomsKept
<1>1. /\ id \in DOMAIN rooms /\ rooms[id] \in RoomState
      /\ \/ rooms' = [rooms EXCEPT ![id].expiryAt = Never]
         \/ rooms' = [rooms EXCEPT ![id].cleanupAt = Never]
  BY DEF ExpiryFires, CleanupFires, Inv, Typed, RoomsOK
<1>2. DOMAIN rooms' = DOMAIN rooms /\ \A x \in DOMAIN rooms : rooms'[x].inc = rooms[x].inc
  BY <1>1 DEF RoomState
<1> QED BY <1>2 DEF RoomsKept, Removed

LEMMA NextKept == Inv /\ [Next]_vars => RoomsKept
<1> SUFFICES ASSUME Inv, [Next]_vars PROVE RoomsKept OBVIOUS
<1>1. ASSUME NEW g \in Requests, Create(g) \/ Status(g) PROVE RoomsKept
  BY <1>1, KeptCreated, KeptPruned DEF Status
<1>2. ASSUME NEW c \in Conns, NEW id \in RoomIds,
             JoinRefused(c, id) \/ JoinWithoutPeerId(c, id) \/ Join(c, id)
      PROVE  RoomsKept
  BY <1>2, KeptJoined
<1>3. ASSUME NEW c \in Conns,
             JoinSendsJoined(c) \/ Relay(c) \/ ReadFails(c) \/ ClientLeaves(c) \/ ClientDrops(c)
      PROVE  RoomsKept
  BY <1>3, KeptSame, KeptPruned
     DEF JoinSendsJoined, Relay, ReadFails, ClientLeaves, ClientDrops, manager
<1>4. ASSUME NEW g \in Goroutines, Internal(g) PROVE RoomsKept
  BY <1>4, KeptSame, KeptPruned, KeptLeft DEF Internal, RoomCount, Broadcast, Send, ClosePeer, manager
<1>5. ASSUME NEW id \in RoomIds, ExpiryFires(id) \/ CleanupFires(id) PROVE RoomsKept BY <1>5, KeptFired
<1>6. ASSUME NEW cb \in callbacks, RunCallback(cb) PROVE RoomsKept BY <1>6, KeptCallback
<1>7. ASSUME NEW p \in detached, CloseDetached(p) PROVE RoomsKept
  BY <1>7, KeptSame DEF CloseDetached, manager
<1>8. ASSUME NEW s \in Closers, CloseFirst(s) PROVE RoomsKept BY <1>8 DEF CloseFirst, RoomsKept
<1>9. ASSUME NEW s \in Closers, CloseReturns(s) \/ CloseAgain(s) PROVE RoomsKept
  BY <1>9, KeptSame DEF CloseReturns, CloseAgain, manager
<1>10. CASE Tick BY <1>10, KeptSame DEF Tick, manager
<1>11. CASE UNCHANGED vars BY <1>11, KeptSame DEF vars
<1> QED BY <1>1, <1>2, <1>3, <1>4, <1>5, <1>6, <1>7, <1>8, <1>9, <1>10, <1>11 DEF Next

-----------------------------------------------------------------------------
(* The state of the manager and the work of every goroutine are well       *)
(* formed, and no room ever holds more than MaxRoomPeers peers: Join takes *)
(* the slot under the mutex it checked it under (rooms.go Join).           *)
THEOREM TypeCorrect == Spec => []TypeOK
<1>1. Inv => TypeOK BY InvType
<1> QED BY <1>1, InvHolds, PTL

(* A handler that returned holds no slot of any room: every way out of     *)
(* websocket in transport.go, the failed Join included, goes through a     *)
(* Leave that finds the peer.                                              *)
THEOREM NoGhostPeerCorrect == Spec => []NoGhostPeer
<1>1. Inv => NoGhostPeer BY InvNoGhost
<1> QED BY <1>1, InvHolds, PTL

(* A handler that waits for frames on an open connection is in a live room *)
(* or about to be closed, unless a Send to it failed: prune, the expiry    *)
(* callback and Close in rooms.go hand every peer they removed to a batch  *)
(* of closes.                                                              *)
THEOREM NoOrphanConnectionCorrect == Spec => []NoOrphanConnection
<1>1. Inv => NoOrphanConnection BY InvNoOrphan
<1> QED BY <1>1, InvHolds, PTL

(* When a call of Close returns, the first or a concurrent one, there is no *)
(* room, and every peer that was a member has its connection closed        *)
(* (rooms.go Close and closeDone).                                         *)
THEOREM ShutdownBarrierCorrect == Spec => []ShutdownBarrier
<1>1. Inv => ShutdownBarrier BY InvBarrier
<1> QED BY <1>1, InvHolds, PTL

(* While the manager is open no step removes a room that has not expired   *)
(* from under a peer that stays: not the timer of an earlier room with the *)
(* same id, not a cleanup timer that fired before a Join could stop it     *)
(* (rooms.go expire, Leave, pruneExpiredLocked and the timers they stop).      *)
THEOREM RoomKeptCorrect == Spec => RoomKeptForMembers
<1>1. Inv /\ [Next]_vars => [RoomsKept]_vars BY NextKept
<1>2. RoomsKept <=> (\A id \in DOMAIN rooms :
        Removed(id) /\ ~closed' /\ now < rooms[id].expiresAt
          => \A p \in rooms[id].peers : phase[p] = "leaving" \/ p \in failedSend)
  BY DEF RoomsKept
<1> QED BY <1>1, <1>2, InvHolds, PTL DEF Spec, RoomKeptForMembers
=============================================================================
