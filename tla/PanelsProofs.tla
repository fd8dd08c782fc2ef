---------------------------- MODULE PanelsProofs ----------------------------
(***************************************************************************)
(* Proofs about Panels for every set of panels and transports, every window  *)
(* and number of calls: type correctness, that one panel is in control, that  *)
(* the windows are timed, that control is kept for whom it is kept, and that   *)
(* who comes back late only watches.                                         *)
(*                                                                         *)
(* Each operation of the session is a function of its state, so each has a    *)
(* lemma of its own: it keeps the session Sound and Timed, and says who may    *)
(* have come into control.                                                   *)
(***************************************************************************)
EXTENDS Panels, WellFoundedInduction, TLAPS

Sound(s) ==
  /\ s \in Session
  /\ \A p \in Panels : s.member[p].role = "controller" <=> s.controller = p
  /\ s.controller # None => s.member[s.controller].in /\ s.member[s.controller].connected

Timed(s) == \A w \in Windows(s) : s.timer # None /\ s.timer <= w

(* Who is in control of r was so in s, or was let in by the rules.            *)
Follows(s, r) ==
  LET p == r.controller
  IN p \notin {None, s.controller} =>
       /\ s.owner # None => p = s.owner \/ ~s.member[p].in
       /\ p \in s.expired => s.member[p].in

-----------------------------------------------------------------------------
(* Windows.                                                                  *)

LEMMA Smallest ==
  ASSUME NEW T, T \subseteq Nat, T # {}
  PROVE \E x \in T : \A y \in T : x <= y
<1>1. PICK x \in T : \A y \in T : ~(<<y, x>> \in OpToRel(<, Nat))
  BY NatLessThanWellFounded, WFMin
<1>2. \A y \in T : ~(y < x)
  BY <1>1 DEF OpToRel
<1> QED BY <1>2

LEMMA WindowsAreNumbers ==
  ASSUME NEW s \in Session
  PROVE Windows(s) \subseteq 0..Window /\ Windows(s) \subseteq Nat
  BY BoundsAssumption DEF Windows, Session, Member, Left

LEMMA WindowsOf ==
  ASSUME NEW s \in Session, NEW w
  PROVE w \in Windows(s) <=> /\ w # None
                             /\ \E p \in Panels : /\ s.member[p].in /\ ~s.member[p].connected
                                                  /\ w = s.member[p].left
  BY DEF Windows

(* Arming changes nothing but the timer.                                     *)
LEMMA Arms ==
  ASSUME NEW s, Sound(s)
  PROVE /\ Sound(Arm(s)) /\ Timed(Arm(s))
        /\ \A u : Follows(u, s) => Follows(u, Arm(s))
<1> DEFINE t == IF Windows(s) = {} THEN None
                ELSE CHOOSE w \in Windows(s) : \A v \in Windows(s) : w <= v
           r == [s EXCEPT !.timer = t]
<1>1. s \in Session
  BY DEF Sound
<1>2. t \in Left /\ \A w \in Windows(s) : t # None /\ t <= w
  <2>1. CASE Windows(s) = {}
    BY <2>1 DEF Left
  <2>2. CASE Windows(s) # {}
    <3>1. \E w \in Windows(s) : \A v \in Windows(s) : w <= v
      BY <1>1, <2>2, WindowsAreNumbers, Smallest
    <3>2. t \in Windows(s) /\ \A v \in Windows(s) : t <= v
      BY <2>2, <3>1
    <3> QED BY <1>1, <3>2, WindowsAreNumbers, NoneAssumption DEF Left
  <2> QED BY <2>1, <2>2
<1> HIDE DEF t
<1>3. /\ r \in Session /\ r.timer = t /\ r.member = s.member /\ r.controller = s.controller
      /\ r.owner = s.owner /\ r.expired = s.expired
  BY <1>1, <1>2 DEF Session
<1>4. Arm(s) = r
  BY DEF Arm, t
<1> HIDE DEF r
<1>5. Windows(r) = Windows(s)
  BY <1>3 DEF Windows
<1>6. Sound(r) /\ Timed(r)
  BY <1>2, <1>3, <1>5 DEF Sound, Timed
<1>7. \A u : Follows(u, s) => Follows(u, r)
  BY <1>3 DEF Follows
<1> QED BY <1>4, <1>6, <1>7
(* With fewer windows the timer is still in time.                            *)
LEMMA Narrower ==
  ASSUME NEW s \in Session, Timed(s), NEW r \in Session, r.timer = s.timer,
         \A p \in Panels :
           r.member[p].in /\ ~r.member[p].connected /\ r.member[p].left # None =>
             /\ s.member[p].in /\ ~s.member[p].connected
             /\ s.member[p].left = r.member[p].left
  PROVE Timed(r)
<1>1. \A w : w \in Windows(r) => w \in Windows(s)
  BY WindowsOf
<1> QED BY <1>1 DEF Timed

-----------------------------------------------------------------------------
(* The operations of the session.                                            *)

LEMMA Expires ==
  ASSUME NEW s, Sound(s), Timed(s)
  PROVE /\ Sound(Expire(s)) /\ Timed(Expire(s))
        /\ Expire(s).controller = s.controller
<1> DEFINE E == Expired(s)
           over == s.owner \in E \/ s.left = 0
           r == Expire(s)
<1>1. s \in Session /\ NoMember \in Member /\ NoMember.role = "spectator" /\ ~NoMember.in
  BY DEF Sound, NoMember, Member, Left
<1>2. E \subseteq Panels /\ \A p \in E : ~s.member[p].connected
  BY DEF Expired
<1> HIDE DEF E, over
<1>3. r = [s EXCEPT
            !.member = [p \in Panels |-> IF p \in E THEN NoMember ELSE s.member[p]],
            !.controller = IF @ \in E THEN None ELSE @,
            !.owner = IF over THEN None ELSE @,
            !.left = IF over THEN None ELSE @,
            !.expired = @ \cup E,
            !.visible = @ \ E]
  BY DEF Expire, E, over
<1> HIDE DEF r
<1>4. /\ r.member = [p \in Panels |-> IF p \in E THEN NoMember ELSE s.member[p]]
      /\ r.controller = IF s.controller \in E THEN None ELSE s.controller
      /\ r.timer = s.timer
  BY <1>1, <1>3 DEF Session
<1>5. r.member \in [Panels -> Member]
  BY <1>1, <1>4 DEF Session
<1>6. r \in Session
  BY <1>1, <1>2, <1>3, <1>4, <1>5 DEF Session, Left
<1>9. s.controller \notin E
  BY <1>2, NoneAssumption DEF Sound
<1>10. r.controller = s.controller
  BY <1>4, <1>9
<1>7. Sound(r)
  <2>3. \A p \in Panels : r.member[p] = IF p \in E THEN NoMember ELSE s.member[p]
    BY <1>4
  <2>4. \A p \in Panels : r.member[p].role = "controller" <=> r.controller = p
    BY <1>1, <1>9, <1>10, <2>3 DEF Sound
  <2>5. r.controller # None => r.controller \in Panels
    BY <1>6 DEF Session
  <2>6. r.controller # None => r.member[r.controller].in /\ r.member[r.controller].connected
    BY <1>9, <1>10, <2>3, <2>5 DEF Sound
  <2> QED BY <1>6, <2>4, <2>6 DEF Sound
<1>8. Timed(r)
  BY <1>1, <1>4, <1>6, Narrower
<1> QED BY <1>7, <1>8, <1>10 DEF r

LEMMA Reclaims ==
  ASSUME NEW s \in Session
  PROVE /\ NoReclaim(s) \in Session /\ NoReclaim(s).member = s.member
        /\ NoReclaim(s).controller = s.controller /\ NoReclaim(s).timer = s.timer
        /\ NoReclaim(s).expired = s.expired
  BY DEF NoReclaim, Session, Left

(* Whoever may reclaim control may not any more.                             *)
LEMMA Yields ==
  ASSUME NEW s, Sound(s)
  PROVE /\ Sound(NoReclaim(s)) /\ NoReclaim(s).controller = s.controller
        /\ Timed(s) => Timed(NoReclaim(s))
<1> DEFINE r == NoReclaim(s)
<1>1. /\ s \in Session /\ r \in Session /\ r.member = s.member
      /\ r.controller = s.controller /\ r.timer = s.timer
  BY Reclaims DEF Sound
<1> HIDE DEF r
<1>2. Sound(r)
  BY <1>1 DEF Sound
<1>3. Timed(s) => Timed(r)
  BY <1>1, Narrower
<1> QED BY <1>1, <1>2, <1>3 DEF r

LEMMA Demotes ==
  ASSUME NEW s \in Session, NEW p \in Panels
  PROVE LET r == Demoted(s, p)
        IN /\ r \in Session /\ r.controller = s.controller /\ r.timer = s.timer
           /\ r.owner = s.owner /\ r.expired = s.expired
           /\ \A q \in Panels : q # p => r.member[q] = s.member[q]
           /\ r.member[p].role = "spectator" /\ r.member[p].left = None
           /\ r.member[p].in = s.member[p].in /\ r.member[p].connected = s.member[p].connected
<1> DEFINE m == [s.member[p] EXCEPT !.role = "spectator", !.left = None]
           M == [s.member EXCEPT ![p] = m]
           r == [s EXCEPT !.member = M]
<1>1. s.member \in [Panels -> Member] /\ s.member[p] \in Member
  BY DEF Session
<1>2. /\ m \in Member /\ m.role = "spectator" /\ m.left = None
      /\ m.in = s.member[p].in /\ m.connected = s.member[p].connected
  BY <1>1 DEF Member, Left
<1>3. Demoted(s, p) = r
  BY DEF Demoted
<1> HIDE DEF m
<1>4. M \in [Panels -> Member] /\ M[p] = m /\ \A q \in Panels : q # p => M[q] = s.member[q]
  BY <1>1, <1>2
<1> HIDE DEF M
<1>5. /\ r \in Session /\ r.member = M /\ r.controller = s.controller /\ r.timer = s.timer
      /\ r.owner = s.owner /\ r.expired = s.expired
  BY <1>4 DEF Session
<1> HIDE DEF r
<1> QED BY <1>2, <1>3, <1>4, <1>5

(* The panel that takes control is a connected member.                       *)
LEMMA Becomes ==
  ASSUME NEW s, Sound(s), Timed(s), NEW p \in Panels, s.member[p].in, s.member[p].connected
  PROVE LET r == BecomeController(s, p)
        IN /\ Sound(r) /\ Timed(r) /\ r.controller = p
<1> DEFINE u == IF s.controller = None THEN s ELSE Demoted(s, s.controller)
           m == [u.member[p] EXCEPT !.role = "controller", !.left = None]
           M == [u.member EXCEPT ![p] = m]
           r == [u EXCEPT !.member = M, !.controller = p]
<1>1. s \in Session /\ s.controller \in Panels \cup {None}
  BY DEF Sound, Session
<1>2. /\ u \in Session /\ u.timer = s.timer
      /\ \A q \in Panels :
           /\ u.member[q].in = s.member[q].in /\ u.member[q].connected = s.member[q].connected
           /\ u.member[q].role # "controller"
           /\ u.member[q].left \in {None, s.member[q].left}
  <2>1. CASE s.controller = None
    BY <1>1, <2>1, NoneAssumption DEF Sound
  <2>2. CASE s.controller # None
    <3>1. s.controller \in Panels /\ u = Demoted(s, s.controller)
      BY <1>1, <2>2
    <3> HIDE DEF u
    <3>2. /\ u \in Session /\ u.timer = s.timer
          /\ \A q \in Panels : q # s.controller => u.member[q] = s.member[q]
          /\ u.member[s.controller].role = "spectator" /\ u.member[s.controller].left = None
          /\ u.member[s.controller].in = s.member[s.controller].in
          /\ u.member[s.controller].connected = s.member[s.controller].connected
      BY <1>1, <3>1, Demotes
    <3>3. \A q \in Panels : q # s.controller => s.member[q].role # "controller"
      BY DEF Sound
    <3> QED BY <3>2, <3>3
  <2> QED BY <2>1, <2>2
<1> DEFINE R == [u EXCEPT !.member[p].role = "controller", !.member[p].left = None,
                          !.controller = p]
<1>10. BecomeController(s, p) = R
  BY DEF BecomeController
<1> HIDE DEF u
<1>3. u.member \in [Panels -> Member] /\ u.member[p] \in Member
  BY <1>2 DEF Session
<1>4. /\ m \in Member /\ m.role = "controller" /\ m.left = None
      /\ m.in = u.member[p].in /\ m.connected = u.member[p].connected
  BY <1>3 DEF Member, Left
<1>5. R = r
  BY <1>2, <1>3 DEF Session
<1> HIDE DEF m, R
<1>6. M \in [Panels -> Member] /\ \A q \in Panels : M[q] = IF q = p THEN m ELSE u.member[q]
  BY <1>3, <1>4
<1> HIDE DEF M
<1>7. r \in Session /\ r.member = M /\ r.controller = p /\ r.timer = s.timer
  BY <1>2, <1>6 DEF Session
<1> HIDE DEF r
<1>8. Sound(r)
  BY <1>2, <1>4, <1>6, <1>7 DEF Sound
<1>9. Timed(r)
  BY <1>1, <1>2, <1>4, <1>6, <1>7, Narrower
<1> QED BY <1>5, <1>7, <1>8, <1>9, <1>10

(* A member that is changed without becoming or ceasing to be controller.     *)
Put(s, p, m) == [s EXCEPT !.member = [s.member EXCEPT ![p] = m]]

LEMMA MemberChanges ==
  ASSUME NEW s, Sound(s), NEW p \in Panels, NEW m \in Member,
         m.role = s.member[p].role, s.controller = p => m.in /\ m.connected
  PROVE LET r == Put(s, p, m)
        IN /\ Sound(r) /\ r.timer = s.timer /\ r.controller = s.controller
           /\ r.owner = s.owner /\ r.expired = s.expired
           /\ \A q \in Panels : r.member[q] = IF q = p THEN m ELSE s.member[q]
<1> DEFINE r == Put(s, p, m)
<1> DEFINE M == [s.member EXCEPT ![p] = m]
<1>1. s \in Session /\ s.member \in [Panels -> Member]
  BY DEF Sound, Session
<1>2. M \in [Panels -> Member] /\ \A q \in Panels : M[q] = IF q = p THEN m ELSE s.member[q]
  BY <1>1
<1>3. r = [s EXCEPT !.member = M]
  BY DEF Put
<1> HIDE DEF M, r
<1>4. /\ r \in Session /\ r.member = M /\ r.controller = s.controller /\ r.timer = s.timer
      /\ r.owner = s.owner /\ r.expired = s.expired
  BY <1>1, <1>2, <1>3 DEF Session
<1>5. Sound(r)
  <2>1. \A q \in Panels : r.member[q].role = s.member[q].role
    BY <1>2, <1>4
  <2>2. \A q \in Panels : r.member[q].role = "controller" <=> r.controller = q
    BY <1>4, <2>1 DEF Sound
  <2>3. s.controller \in Panels \cup {None}
    BY <1>1 DEF Session
  <2>4. r.controller # None => r.member[r.controller].in /\ r.member[r.controller].connected
    BY <1>2, <1>4, <2>3 DEF Sound
  <2> QED BY <1>4, <2>2, <2>4 DEF Sound
<1> QED BY <1>2, <1>4, <1>5 DEF r

(* A panel that joins is in control only if nobody is and it is not late.     *)
LEMMA Adds ==
  ASSUME NEW s, Sound(s), NEW p \in Panels, ~s.member[p].in
  PROVE Sound(Add(s, p)) /\ Follows(s, Add(s, p)) /\ Add(s, p).member[p].next \in Nat
<1> DEFINE drives == p \notin s.expired /\ s.controller = None
           role == IF drives THEN "controller" ELSE "spectator"
           m == [NoMember EXCEPT !.in = TRUE, !.connected = TRUE, !.role = role]
           M == [s.member EXCEPT ![p] = m]
           c == IF drives THEN p ELSE s.controller
           r == [s EXCEPT !.member = M, !.controller = c, !.expired = s.expired \ {p}]
<1>1. s \in Session /\ s.member \in [Panels -> Member]
  BY DEF Sound, Session
<1>2. Add(s, p) = r
  BY DEF Add
<1>3. role \in {"controller", "spectator"} /\ (role = "controller" <=> drives)
  OBVIOUS
<1> HIDE DEF role
<1>4. m \in Member /\ m.in /\ m.connected /\ m.role = role /\ m.next \in Nat
  BY <1>3 DEF NoMember, Member, Left
<1> HIDE DEF m
<1>5. M \in [Panels -> Member] /\ \A q \in Panels : M[q] = IF q = p THEN m ELSE s.member[q]
  BY <1>1, <1>4
<1> HIDE DEF M
<1>10. c \in Panels \cup {None}
  BY <1>1 DEF Session
<1> HIDE DEF c
<1>6. r \in Session /\ r.member = M /\ r.controller = c
  BY <1>1, <1>5, <1>10 DEF Session
<1> HIDE DEF r
<1> USE DEF c
<1>7. s.controller # p
  BY NoneAssumption DEF Sound
<1>8. Sound(r)
  <2>1. \A q \in Panels : r.member[q].role = "controller" <=> r.controller = q
    BY <1>3, <1>4, <1>5, <1>6, <1>7, NoneAssumption DEF Sound
  <2>2. r.controller # None => r.member[r.controller].in /\ r.member[r.controller].connected
    BY <1>1, <1>4, <1>5, <1>6, <1>7 DEF Sound, Session
  <2> QED BY <1>6, <2>1, <2>2 DEF Sound
<1>9. Follows(s, r)
  BY <1>6 DEF Follows
<1> QED BY <1>2, <1>4, <1>5, <1>6, <1>8, <1>9

(* connectPanel and reserveConnection.                                       *)
LEMMA Connects ==
  ASSUME NEW s, Sound(s), NEW p \in Panels
  PROVE /\ Sound(Connect(s, p)) /\ Timed(Connect(s, p)) /\ Follows(s, Connect(s, p))
        /\ Sound(Reserve(s, p)) /\ Timed(Reserve(s, p)) /\ Follows(s, Reserve(s, p))
        /\ Reserve(s, p).member[p].next \in Nat
<1> DEFINE c == IF s.member[p].in
                THEN [s EXCEPT !.member[p].connected = TRUE, !.member[p].left = None]
                ELSE Add(s, p)
           g == c.member[p].next + 1
           r == [c EXCEPT !.member[p].next = g, !.member[p].pending = g]
<1>1. Sound(c) /\ Follows(s, c)
  <2>1. CASE ~s.member[p].in
    BY <2>1, Adds
  <2>2. CASE s.member[p].in
    <3> DEFINE m == [s.member[p] EXCEPT !.connected = TRUE, !.left = None]
    <3>1. s.member[p] \in Member
      BY DEF Sound, Session
    <3>2. m \in Member /\ m.role = s.member[p].role /\ m.in /\ m.connected
      BY <2>2, <3>1 DEF Member, Left
    <3>3. c = Put(s, p, m)
      BY <2>2 DEF Put
    <3> HIDE DEF m, c
    <3>4. Sound(c) /\ c.controller = s.controller
      BY <3>2, <3>3, MemberChanges
    <3> QED BY <3>4 DEF Follows
  <2> QED BY <2>1, <2>2
<1>2. Connect(s, p) = Arm(c) /\ Reserve(s, p) = Arm(r)
  BY DEF Connect, Reserve
<1> HIDE DEF c
<1>3. Sound(r) /\ r.controller = c.controller /\ r.member[p].next \in Nat
  <2> DEFINE m == [c.member[p] EXCEPT !.next = g, !.pending = g]
  <2>1. c.member[p] \in Member /\ c.member[p].next \in Nat
    BY <1>1 DEF Sound, Session, Member
  <2>2. g \in Nat
    BY <2>1
  <2> HIDE DEF g
  <2>3. /\ m \in Member /\ m.role = c.member[p].role /\ m.in = c.member[p].in
        /\ m.connected = c.member[p].connected /\ m.next \in Nat
    BY <2>1, <2>2 DEF Member
  <2>4. r = Put(c, p, m)
    BY DEF Put
  <2>5. c.controller = p => m.in /\ m.connected
    BY <1>1, <2>3, NoneAssumption DEF Sound
  <2> HIDE DEF m, r
  <2> QED BY <1>1, <2>3, <2>4, <2>5, MemberChanges
<1> HIDE DEF r
<1>4. Follows(s, r)
  BY <1>1, <1>3 DEF Follows
<1>5. Arm(r).member = r.member
  <2>1. r \in Session
    BY <1>3 DEF Sound
  <2> QED BY <2>1 DEF Arm, Session
<1> QED BY <1>1, <1>2, <1>3, <1>4, <1>5, Arms

(* disconnectPanel, of a member.                                             *)
LEMMA GoesAway ==
  ASSUME NEW s, Sound(s), NEW p \in Panels
  PROVE /\ Sound(Disconnect(s, p)) /\ Timed(Disconnect(s, p)) /\ Follows(s, Disconnect(s, p))
<1> DEFINE away == [s EXCEPT !.member[p].connected = FALSE, !.member[p].left = Window]
           r == IF s.member[p].role = "controller"
                THEN [away EXCEPT !.member[p].role = "spectator",
                                  !.owner = p, !.left = Window,
                                  !.controller = IF @ = p THEN None ELSE @]
                ELSE away
           m == [s.member[p] EXCEPT !.connected = FALSE, !.left = Window]
           n == [m EXCEPT !.role = "spectator"]
           M == [s.member EXCEPT ![p] = m]
           N == [M EXCEPT ![p] = n]
<1>1. /\ s \in Session /\ s.member \in [Panels -> Member] /\ s.member[p] \in Member
      /\ Window \in Left
  BY BoundsAssumption DEF Sound, Session, Left
<1>2. /\ m \in Member /\ m.role = s.member[p].role
      /\ n \in Member /\ n.role = "spectator"
  BY <1>1 DEF Member
<1>3. away = Put(s, p, m)
  BY DEF Put
<1>4. away = [s EXCEPT !.member = M] /\ away \in Session /\ away.member = M
      /\ away.controller = s.controller
  <2> HIDE DEF m
  <2>1. M \in [Panels -> Member]
    BY <1>1, <1>2
  <2> HIDE DEF M
  <2>2. away = [s EXCEPT !.member = M]
    BY <1>3 DEF Put, M
  <2> HIDE DEF away
  <2> QED BY <1>1, <2>1, <2>2 DEF Session
<1>5. Disconnect(s, p) = Arm(r)
  BY DEF Disconnect
<1>6. CASE s.member[p].role # "controller"
  <2>1. r = Put(s, p, m) /\ s.controller # p
    BY <1>3, <1>6 DEF Sound
  <2> HIDE DEF r, m
  <2>2. Sound(r) /\ r.controller = s.controller
    BY <1>2, <2>1, MemberChanges
  <2> QED BY <1>5, <2>2, Arms DEF Follows
<1>7. CASE s.member[p].role = "controller"
  <2>1. s.controller = p
    BY <1>7 DEF Sound
  <2>2. N \in [Panels -> Member] /\ \A q \in Panels : N[q] = IF q = p THEN n ELSE s.member[q]
    <3> HIDE DEF m, n
    <3> QED BY <1>1, <1>2
  <2>3. r = [away EXCEPT !.member = N, !.owner = p, !.left = Window, !.controller = None]
    <3>1. r = [away EXCEPT !.member[p].role = "spectator", !.owner = p, !.left = Window,
                           !.controller = IF @ = p THEN None ELSE @]
      BY <1>7
    <3>2. N = [away.member EXCEPT ![p] = [@ EXCEPT !.role = "spectator"]]
      <4>1. M[p] = m
        BY <1>1
      <4> QED BY <1>4, <4>1
    <3> HIDE DEF away, N, r
    <3> QED BY <1>4, <2>1, <3>1, <3>2 DEF Session
  <2> HIDE DEF away, N, r, m, n
  <2>4. r \in Session /\ r.member = N /\ r.controller = None
    BY <1>1, <1>4, <2>2, <2>3 DEF Session
  <2>5. Sound(r)
    <3>1. \A q \in Panels : r.member[q].role # "controller"
      BY <1>2, <2>1, <2>2, <2>4 DEF Sound
    <3> QED BY <2>4, <3>1, NoneAssumption DEF Sound
  <2>6. Follows(s, r)
    BY <2>4 DEF Follows
  <2> QED BY <1>5, <2>5, <2>6, Arms
<1> QED BY <1>6, <1>7

(* takeControl.                                                              *)
LEMMA Takes ==
  ASSUME NEW s, Sound(s), Timed(s), NEW p \in Panels
  PROVE Sound(Take(s, p)) /\ Timed(Take(s, p)) /\ Follows(s, Take(s, p))
<1>1. CASE ~s.member[p].in \/ ~s.member[p].connected \/ s.controller = p
           \/ (s.owner # None /\ s.owner # p)
  BY <1>1 DEF Take, Follows
<1>2. ASSUME s.member[p].in, s.member[p].connected, s.controller # p,
             s.owner = None \/ s.owner = p
      PROVE Sound(Take(s, p)) /\ Timed(Take(s, p)) /\ Follows(s, Take(s, p))
  <2> DEFINE b == BecomeController(s, p)
  <2>1. Sound(b) /\ Timed(b) /\ b.controller = p
    BY <1>2, Becomes
  <2>2. Take(s, p) = NoReclaim(b)
    BY <1>2 DEF Take
  <2> HIDE DEF b
  <2>3. Sound(NoReclaim(b)) /\ Timed(NoReclaim(b)) /\ NoReclaim(b).controller = p
    BY <2>1, Yields
  <2> QED BY <1>2, <2>2, <2>3 DEF Follows
<1> QED BY <1>1, <1>2

(* reclaimControl.                                                           *)
LEMMA ReclaimsControl ==
  ASSUME NEW s, Sound(s), Timed(s), NEW p \in Panels
  PROVE Sound(Reclaim(s, p)) /\ Timed(Reclaim(s, p)) /\ Follows(s, Reclaim(s, p))
<1>1. CASE ~s.member[p].in \/ ~s.member[p].connected \/ s.owner # p
  BY <1>1 DEF Reclaim, Follows
<1>2. ASSUME s.member[p].in, s.member[p].connected, s.owner = p, s.controller # None
      PROVE Sound(Reclaim(s, p)) /\ Timed(Reclaim(s, p)) /\ Follows(s, Reclaim(s, p))
  <2> DEFINE m == [s.member[p] EXCEPT !.left = None]
             b == [s EXCEPT !.member[p].left = None]
  <2>1. s.member[p] \in Member /\ s \in Session
    BY DEF Sound, Session
  <2>2. m \in Member /\ m.role = s.member[p].role /\ m.in /\ m.connected
    BY <1>2, <2>1 DEF Member, Left
  <2>3. b = Put(s, p, m)
    BY DEF Put
  <2>4. Reclaim(s, p) = NoReclaim(b)
    BY <1>2 DEF Reclaim
  <2> HIDE DEF m, b
  <2>5. /\ Sound(b) /\ b.timer = s.timer /\ b.controller = s.controller
        /\ \A q \in Panels : b.member[q] = IF q = p THEN m ELSE s.member[q]
    BY <2>2, <2>3, MemberChanges
  <2>6. b \in Session
    BY <2>5 DEF Sound
  <2>7. Timed(b)
    BY <2>1, <2>2, <2>5, <2>6, Narrower
  <2> QED BY <2>4, <2>5, <2>7, Yields DEF Follows
<1>3. ASSUME s.member[p].in, s.member[p].connected, s.owner = p, s.controller = None
      PROVE Sound(Reclaim(s, p)) /\ Timed(Reclaim(s, p)) /\ Follows(s, Reclaim(s, p))
  <2> DEFINE b == BecomeController(s, p)
  <2>1. Sound(b) /\ Timed(b) /\ b.controller = p
    BY <1>3, Becomes
  <2>2. Reclaim(s, p) = NoReclaim(b)
    BY <1>3 DEF Reclaim
  <2> HIDE DEF b
  <2>3. Sound(NoReclaim(b)) /\ Timed(NoReclaim(b)) /\ NoReclaim(b).controller = p
    BY <2>1, Yields
  <2> QED BY <1>3, <2>2, <2>3 DEF Follows
<1> QED BY <1>1, <1>2, <1>3

(* releaseControl.                                                           *)
LEMMA GivesUp ==
  ASSUME NEW s, Sound(s), Timed(s), NEW p \in Panels
  PROVE Sound(GiveUp(s, p)) /\ Timed(GiveUp(s, p)) /\ Follows(s, GiveUp(s, p))
<1>1. CASE s.member[p].role # "controller"
  BY <1>1 DEF GiveUp, Follows
<1>2. CASE s.member[p].role = "controller"
  <2> DEFINE d == Demoted(s, p)
             b == [d EXCEPT !.controller = IF @ = p THEN None ELSE @]
  <2>1. s \in Session /\ s.controller = p
    BY <1>2 DEF Sound
  <2>2. /\ d \in Session /\ d.controller = p /\ d.timer = s.timer
        /\ \A q \in Panels : q # p => d.member[q] = s.member[q]
        /\ d.member[p].role = "spectator" /\ d.member[p].left = None
        /\ d.member[p].in = s.member[p].in /\ d.member[p].connected = s.member[p].connected
    BY <2>1, Demotes
  <2>3. GiveUp(s, p) = NoReclaim(b)
    BY <1>2 DEF GiveUp
  <2> HIDE DEF d
  <2>4. b \in Session /\ b.member = d.member /\ b.controller = None /\ b.timer = s.timer
    BY <2>2 DEF Session
  <2> HIDE DEF b
  <2>5. \A q \in Panels : b.member[q].role # "controller"
    BY <2>1, <2>2, <2>4 DEF Sound
  <2>6. Sound(b)
    BY <2>4, <2>5, NoneAssumption DEF Sound
  <2>7. Timed(b)
    BY <2>1, <2>2, <2>4, Narrower
  <2> QED BY <2>3, <2>4, <2>6, <2>7, Yields DEF Follows
<1> QED BY <1>1, <1>2

(* closePanel.                                                               *)
LEMMA Closes ==
  ASSUME NEW s, Sound(s), Timed(s), NEW p \in Panels
  PROVE Sound(Close(s, p)) /\ Timed(Close(s, p)) /\ Follows(s, Close(s, p))
<1>1. CASE ~s.member[p].in
  BY <1>1 DEF Close, Follows
<1>2. CASE s.member[p].in
  <2> DEFINE c == IF s.member[p].role = "controller"
                  THEN NoReclaim([s EXCEPT !.controller = IF @ = p THEN None ELSE @])
                  ELSE IF s.owner = p THEN NoReclaim(s) ELSE s
             M == [c.member EXCEPT ![p] = NoMember]
             b == [c EXCEPT !.member = M]
  <2>1. s \in Session /\ NoMember \in Member /\ NoMember.role = "spectator"
    BY DEF Sound, NoMember, Member, Left
  <2>2. /\ c \in Session /\ c.member = s.member
        /\ c.controller = IF s.controller = p THEN None ELSE s.controller
    <3>1. CASE s.member[p].role = "controller"
      <4> DEFINE d == [s EXCEPT !.controller = IF @ = p THEN None ELSE @]
      <4>1. s.controller = p
        BY <3>1 DEF Sound
      <4>2. d \in Session /\ d.member = s.member /\ d.controller = None
        BY <2>1, <4>1 DEF Session
      <4>3. c = NoReclaim(d)
        BY <3>1
      <4> HIDE DEF d, c
      <4> QED BY <4>1, <4>2, <4>3, Reclaims
    <3>2. CASE s.member[p].role # "controller"
      <4>1. s.controller # p
        BY <3>2 DEF Sound
      <4> QED BY <2>1, <3>2, <4>1, Reclaims
    <3> QED BY <3>1, <3>2
  <2>3. Close(s, p) = Arm([c EXCEPT !.member[p] = NoMember])
    BY <1>2 DEF Close
  <2> HIDE DEF c
  <2>4. [c EXCEPT !.member[p] = NoMember] = b
    OBVIOUS
  <2>5. /\ M \in [Panels -> Member]
        /\ \A q \in Panels : M[q] = IF q = p THEN NoMember ELSE s.member[q]
    BY <2>1, <2>2 DEF Session
  <2> HIDE DEF M
  <2>6. b \in Session /\ b.member = M /\ b.controller = c.controller
    BY <2>2, <2>5 DEF Session
  <2> HIDE DEF b
  <2>7. Sound(b)
    <3>1. \A q \in Panels : b.member[q].role = "controller" <=> b.controller = q
      BY <2>1, <2>2, <2>5, <2>6, NoneAssumption DEF Sound
    <3>2. b.controller # None => b.controller \in Panels /\ b.controller # p /\ b.controller = s.controller
      BY <2>2, <2>6 DEF Session
    <3>3. b.controller # None => b.member[b.controller].in /\ b.member[b.controller].connected
      BY <2>5, <2>6, <3>2 DEF Sound
    <3> QED BY <2>6, <3>1, <3>3 DEF Sound
  <2>8. Follows(s, b)
    BY <2>2, <2>6 DEF Follows
  <2> QED BY <2>3, <2>4, <2>7, <2>8, Arms
<1> QED BY <1>1, <1>2

(* revoke.                                                                   *)
LEMMA Revokes ==
  ASSUME NEW s, Sound(s), Timed(s)
  PROVE Sound(Revoked(s)) /\ Timed(Revoked(s)) /\ Follows(s, Revoked(s))
<1> DEFINE m(p) == [s.member[p] EXCEPT !.role = "spectator", !.left = None]
           M == [p \in Panels |-> m(p)]
           b == [s EXCEPT !.controller = None, !.member = M]
<1>1. s \in Session /\ s.member \in [Panels -> Member]
  BY DEF Sound, Session
<1>2. \A p \in Panels : m(p) \in Member /\ m(p).role = "spectator" /\ m(p).left = None
  BY <1>1 DEF Member, Left
<1>3. Revoked(s) = NoReclaim(b)
  BY DEF Revoked
<1> HIDE DEF m
<1>4. M \in [Panels -> Member] /\ \A p \in Panels : M[p] = m(p)
  BY <1>2
<1> HIDE DEF M
<1>5. b \in Session /\ b.member = M /\ b.controller = None /\ b.timer = s.timer
  BY <1>1, <1>4 DEF Session
<1> HIDE DEF b
<1>6. Sound(b)
  BY <1>2, <1>4, <1>5, NoneAssumption DEF Sound
<1>7. Timed(b)
  BY <1>1, <1>2, <1>4, <1>5, Narrower
<1> QED BY <1>3, <1>5, <1>6, <1>7, Yields DEF Follows

(* setPanelVisibility.                                                       *)
LEMMA Shows ==
  ASSUME NEW s, Sound(s), Timed(s), NEW V \in SUBSET Panels
  PROVE LET r == [s EXCEPT !.visible = V]
        IN /\ Sound(r) /\ Timed(r) /\ r.controller = s.controller
           /\ \A u : Follows(u, s) => Follows(u, r)
<1> DEFINE r == [s EXCEPT !.visible = V]
<1>1. /\ s \in Session /\ r \in Session /\ r.member = s.member
      /\ r.controller = s.controller /\ r.timer = s.timer
  BY DEF Sound, Session
<1> HIDE DEF r
<1>2. Sound(r)
  BY <1>1 DEF Sound
<1>3. Timed(r)
  BY <1>1, Narrower
<1>4. \A u : Follows(u, s) => Follows(u, r)
  BY <1>1 DEF Follows
<1> QED BY <1>1, <1>2, <1>3, <1>4 DEF r

(* Time passes for the windows and for the timer alike.                       *)
LEMMA Passes ==
  ASSUME Sound(session), Timed(session), Tick
  PROVE Sound(session') /\ Timed(session') /\ session'.controller = session.controller
<1> DEFINE Passed(w) == IF w = None \/ w = 0 THEN w ELSE w - 1
           s == session
           m(p) == [s.member[p] EXCEPT !.left = Passed(@)]
           M == [p \in Panels |-> m(p)]
<1>1. s \in Session /\ s.member \in [Panels -> Member] /\ s.left \in Left /\ s.timer \in Left
  BY DEF Sound, Session
<1>2. \A w \in Left : Passed(w) \in Left
  BY BoundsAssumption, NoneAssumption DEF Left
<1>3. session' = [s EXCEPT !.member = M, !.left = Passed(@), !.timer = Passed(@)]
  BY DEF Tick
<1> HIDE DEF Passed
<1>4. \A p \in Panels :
        /\ m(p) \in Member /\ m(p).role = s.member[p].role /\ m(p).in = s.member[p].in
        /\ m(p).connected = s.member[p].connected /\ m(p).left = Passed(s.member[p].left)
        /\ s.member[p].left \in Left
  BY <1>1, <1>2 DEF Member
<1> HIDE DEF m
<1>5. M \in [Panels -> Member] /\ \A p \in Panels : M[p] = m(p)
  BY <1>4
<1> HIDE DEF M
<1>6. /\ session' \in Session /\ session'.member = M /\ session'.controller = s.controller
      /\ session'.timer = Passed(s.timer)
  BY <1>1, <1>2, <1>3, <1>5 DEF Session
<1>7. Sound(session')
  <2>1. \A p \in Panels : session'.member[p].role = s.member[p].role
    BY <1>4, <1>5, <1>6
  <2>2. \A p \in Panels : session'.member[p].role = "controller" <=> session'.controller = p
    BY <1>6, <2>1 DEF Sound
  <2>3. s.controller \in Panels \cup {None}
    BY <1>1 DEF Session
  <2>4. session'.controller # None =>
          session'.member[session'.controller].in /\ session'.member[session'.controller].connected
    BY <1>4, <1>5, <1>6, <2>3 DEF Sound
  <2> QED BY <1>6, <2>2, <2>4 DEF Sound
<1>8. Timed(session')
  <2> SUFFICES ASSUME NEW w \in Windows(session')
               PROVE session'.timer # None /\ session'.timer <= w
    BY DEF Timed
  <2>1. PICK p \in Panels : /\ session'.member[p].in /\ ~session'.member[p].connected
                            /\ w = session'.member[p].left /\ w # None
    BY <1>6, WindowsOf
  <2> DEFINE v == s.member[p].left
  <2>2. s.member[p].in /\ ~s.member[p].connected /\ w = Passed(v) /\ v \in Left
    BY <1>4, <1>5, <1>6, <2>1
  <2>3. v # None
    BY <2>1, <2>2 DEF Passed
  <2>4. v \in Windows(s)
    BY <1>1, <2>2, <2>3, WindowsOf
  <2>5. s.timer # None /\ s.timer <= v
    BY <2>4 DEF Timed
  <2>6. s.timer \in Nat /\ v \in Nat
    BY <1>1, <2>2, <2>3, <2>5, BoundsAssumption DEF Left
  <2> QED BY <1>6, <2>2, <2>5, <2>6, NoneAssumption DEF Passed
<1> QED BY <1>6, <1>7, <1>8

-----------------------------------------------------------------------------
(* The steps.                                                                *)

TransportMap == [Transports -> TransportRecord]
BoundMap == [Panels -> SUBSET Transports]

(* A transport that has been opened is a panel's, and only such a one has a    *)
(* socket.                                                                   *)
Opened(T) ==
  \A t \in Transports : /\ T[t].phase # "unused" => T[t].panel \in Panels
                        /\ T[t].authorized => T[t].phase # "unused"

Around ==
  /\ bound \in BoundMap /\ transport \in TransportMap /\ calls \subseteq CallRecord
  /\ idlers \in 0..MaxIdlers /\ releases \in 0..MaxReleases
  /\ Opened(transport)

IInv == Sound(session) /\ Timed(session) /\ Around

(* What a step does to the session.                                          *)
Moves == /\ Sound(session') /\ Timed(session') /\ Follows(Now, session')

LEMMA NowIsSound ==
  ASSUME IInv
  PROVE /\ Sound(Now) /\ Timed(Now) /\ Now \in Session
        /\ Now.controller = session.controller
  BY Expires DEF IInv, Now, Sound

(* A session without a new controller.                                       *)
LEMMA NobodyNew ==
  ASSUME IInv, Sound(session'), Timed(session'),
         session'.controller \in {None, Now.controller}
  PROVE Moves
  BY DEF Moves, Follows

LEMMA Idlers ==
  ASSUME Around, NEW s, ReleaseIfIdle(s) \/ UNCHANGED idlers
  PROVE idlers' \in 0..MaxIdlers
  BY BoundsAssumption DEF Around, ReleaseIfIdle

(* Steps that have only the session's operations and releaseIfIdle.           *)
LEMMA SessionSteps ==
  ASSUME IInv,
         \/ \E p \in Panels : \/ ConnectPanel(p) \/ TakeControl(p) \/ ReclaimControl(p)
                              \/ ReleaseControl(p) \/ ShowPanel(p) \/ HidePanel(p)
         \/ RevokeSession \/ ReclaimDeadline
  PROVE Moves /\ Around'
<1> USE NowIsSound
<1>1. ASSUME UNCHANGED Rest, (\E s : ReleaseIfIdle(s)) \/ UNCHANGED idlers PROVE Around'
  BY <1>1, Idlers DEF IInv, Around, Rest
<1>2. ASSUME NEW p \in Panels, ConnectPanel(p) PROVE Moves /\ Around'
  BY <1>1, <1>2, Connects DEF ConnectPanel, Moves, Rest
<1>3. ASSUME NEW p \in Panels, TakeControl(p) PROVE Moves /\ Around'
  BY <1>1, <1>3, Takes DEF TakeControl, Moves, Rest
<1>4. ASSUME NEW p \in Panels, ReclaimControl(p) PROVE Moves /\ Around'
  BY <1>1, <1>4, ReclaimsControl DEF ReclaimControl, Moves, Rest
<1>5. ASSUME NEW p \in Panels, ReleaseControl(p) PROVE Moves /\ Around'
  BY <1>1, <1>5, GivesUp DEF ReleaseControl, Moves, Rest
<1>6. ASSUME NEW p \in Panels, ShowPanel(p) PROVE Moves /\ Around'
  <2>1. session.visible \cup {p} \in SUBSET Panels
    BY DEF IInv, Sound, Session
  <2>2. session' = [session EXCEPT !.visible = session.visible \cup {p}]
    BY <1>6 DEF ShowPanel
  <2>3. Sound(session') /\ Timed(session') /\ session'.controller = session.controller
    BY <2>1, <2>2, Shows DEF IInv
  <2>4. Around'
    BY <1>1, <1>6 DEF ShowPanel, Rest
  <2> QED BY <2>3, <2>4, NobodyNew
<1>7. ASSUME NEW p \in Panels, HidePanel(p) PROVE Moves /\ Around'
  <2> DEFINE u == [session EXCEPT !.visible = session.visible \ {p}]
  <2>1. session.visible \ {p} \in SUBSET Panels
    BY DEF IInv, Sound, Session
  <2>2. session' = Expire(u) /\ ReleaseIfIdle(Expire(u)) /\ UNCHANGED Rest
    BY <1>7 DEF HidePanel
  <2>3. Sound(u) /\ Timed(u) /\ u.controller = session.controller
    BY <2>1, Shows DEF IInv
  <2> HIDE DEF u
  <2>4. Sound(session') /\ Timed(session') /\ session'.controller \in {None, session.controller}
    BY <2>2, <2>3, Expires
  <2> QED BY <1>1, <2>2, <2>4, NobodyNew
<1>8. CASE RevokeSession
  BY <1>1, <1>8, Revokes DEF RevokeSession, Moves, Rest
<1>9. CASE ReclaimDeadline
  <2>1. session' = Arm(Now) /\ ReleaseIfIdle(Arm(Now)) /\ UNCHANGED Rest
    BY <1>9 DEF ReclaimDeadline
  <2>2. Follows(Now, Now)
    BY DEF Follows
  <2> QED BY <1>1, <2>1, <2>2, Arms DEF Moves
<1> QED BY <1>2, <1>3, <1>4, <1>5, <1>6, <1>7, <1>8, <1>9

-----------------------------------------------------------------------------
(* Transports.                                                               *)

(* A stop keeps what is known of the transports.                              *)
LEMMA StopsKeep ==
  ASSUME NEW T, NEW ts \in TransportMap, Opened(ts)
  PROVE Stopping(T, ts) \in TransportMap /\ Opened(Stopping(T, ts))
<1> DEFINE m(t) == [ts[t] EXCEPT !.phase = "stopping", !.cap = "spent"]
<1>1. \A t \in Transports : ts[t] \in TransportRecord
  BY DEF TransportMap
<1>2. \A t \in Transports :
        /\ m(t) \in TransportRecord /\ m(t).phase = "stopping" /\ m(t).panel = ts[t].panel
        /\ m(t).authorized = ts[t].authorized
  BY <1>1 DEF TransportRecord
<1>3. Stopping(T, ts) = [t \in Transports |->
        IF t \in T /\ ts[t].phase = "listening" THEN m(t) ELSE ts[t]]
  BY DEF Stopping
<1> HIDE DEF m
<1>4. Stopping(T, ts) \in TransportMap
  BY <1>1, <1>2, <1>3 DEF TransportMap
<1>5. \A t \in Transports : Stopping(T, ts)[t] =
        IF t \in T /\ ts[t].phase = "listening" THEN m(t) ELSE ts[t]
  BY <1>3
<1>6. Opened(Stopping(T, ts))
  BY <1>2, <1>5 DEF Opened
<1> QED BY <1>4, <1>6

(* One transport changes.                                                    *)
LEMMA TransportChanges ==
  ASSUME NEW t \in Transports, NEW ts \in TransportMap, Opened(ts), NEW m \in TransportRecord,
         m.phase # "unused" => m.panel \in Panels, m.authorized => m.phase # "unused"
  PROVE [ts EXCEPT ![t] = m] \in TransportMap /\ Opened([ts EXCEPT ![t] = m])
  BY DEF TransportMap, Opened

LEMMA StopCalls ==
  ASSUME NEW by \in {"join", "activate", "release", "idle"}, NEW p \in Panels \cup {None},
         NEW t \in Transports \cup {None}, NEW B \in SUBSET Transports, NEW S \in SUBSET Transports
  PROVE StopCall(by, p, t, B, S) \in CallRecord
  BY DEF StopCall, CallRecord

(* openPanelTransport.                                                       *)
LEMMA OpenSteps ==
  ASSUME IInv, NEW t \in Transports, NEW p \in Panels, Open(t, p)
  PROVE Moves /\ Around'
<1> DEFINE s == Reserve(Now, p)
           g == s.member[p].next
           obsolete == {u \in bound[p] : transport[u].gen \notin {g, s.member[p].auth}}
           m == [panel |-> p, gen |-> g, authorized |-> FALSE, cap |-> "pending", live |-> TRUE,
                 phase |-> IF obsolete = {} THEN "starting" ELSE "joining"]
           T == [transport EXCEPT ![t] = m]
<1>1. /\ session' = s /\ transport' = Stopping(obsolete, T)
      /\ calls' = IF obsolete = {} THEN calls
                  ELSE calls \cup {StopCall("join", p, t, bound[p], obsolete)}
      /\ UNCHANGED <<bound, idlers, releases>>
  BY DEF Open
<1>2. Sound(s) /\ Timed(s) /\ Follows(Now, s) /\ g \in Nat
  BY NowIsSound, Connects
<1>3. bound[p] \in SUBSET Transports /\ obsolete \in SUBSET Transports
  BY DEF IInv, Around, BoundMap
<1> HIDE DEF s, g, obsolete
<1>4. m \in TransportRecord /\ m.panel = p /\ m.phase # "unused" /\ ~m.authorized
  BY <1>2 DEF TransportRecord
<1> HIDE DEF m
<1>5. T \in TransportMap /\ Opened(T)
  BY <1>4, TransportChanges DEF IInv, Around
<1> HIDE DEF T
<1>6. transport' \in TransportMap /\ Opened(transport')
  BY <1>1, <1>5, StopsKeep
<1>7. calls' \subseteq CallRecord
  BY <1>1, <1>3, StopCalls DEF IInv, Around
<1> QED BY <1>1, <1>2, <1>6, <1>7 DEF Moves, IInv, Around

(* activate.                                                                 *)
LEMMA RedeemSteps ==
  ASSUME IInv, NEW t \in Transports, Redeem(t)
  PROVE Moves /\ Around'
<1> DEFINE p == transport[t].panel
           activates == /\ transport[t].live /\ Now.member[p].in
                        /\ Now.member[p].pending = transport[t].gen
                        /\ transport[t].gen > Now.member[p].auth
           superseded == IF activates /\ Now.member[p].auth # 0
                         THEN {u \in bound[p] : transport[u].gen = Now.member[p].auth} ELSE {}
           n == [Now.member[p] EXCEPT !.auth = transport[t].gen, !.pending = 0]
           m == [transport[t] EXCEPT !.authorized = TRUE, !.cap = "spent"]
           T == [transport EXCEPT ![t] = m]
<1>1. /\ session' = IF activates
                    THEN [Now EXCEPT !.member[p].auth = transport[t].gen, !.member[p].pending = 0]
                    ELSE Now
      /\ transport' = Stopping(superseded,
           [transport EXCEPT ![t].authorized = TRUE, ![t].cap = "spent"])
      /\ calls' = IF superseded = {} THEN calls
                  ELSE calls \cup {StopCall("activate", p, t, bound[p], superseded)}
      /\ UNCHANGED <<bound, idlers, releases>> /\ transport[t].phase = "listening"
  BY DEF Redeem
<1>2. transport[t] \in TransportRecord /\ p \in Panels /\ transport \in TransportMap
  BY <1>1 DEF IInv, Around, Opened, TransportMap
<1>3. bound[p] \in SUBSET Transports /\ superseded \in SUBSET Transports
  BY <1>2 DEF IInv, Around, BoundMap
<1>4. /\ m \in TransportRecord /\ m.panel = p /\ m.phase = "listening"
      /\ [transport EXCEPT ![t].authorized = TRUE, ![t].cap = "spent"] = T
  BY <1>1, <1>2 DEF TransportRecord
<1>5. Now.member[p] \in Member /\ transport[t].gen \in Nat
  BY <1>2, NowIsSound DEF Session, TransportRecord
<1>6. /\ n \in Member /\ n.role = Now.member[p].role /\ n.in = Now.member[p].in
      /\ n.connected = Now.member[p].connected /\ n.left = Now.member[p].left
  BY <1>5 DEF Member
<1>7. session' = Now \/ session' = Put(Now, p, n)
  BY <1>1 DEF Put
<1> HIDE DEF n, m, superseded, activates
<1>8. Moves
  <2>1. CASE session' = Now
    BY <2>1, NowIsSound, NobodyNew
  <2>2. CASE session' = Put(Now, p, n)
    <3>1. Now.controller = p => n.in /\ n.connected
      BY <1>2, <1>6, NowIsSound, NoneAssumption DEF Sound
    <3>2. /\ Sound(Put(Now, p, n)) /\ Put(Now, p, n).timer = Now.timer
          /\ Put(Now, p, n).controller = Now.controller
          /\ \A q \in Panels : Put(Now, p, n).member[q] = IF q = p THEN n ELSE Now.member[q]
      BY <1>2, <1>6, <3>1, NowIsSound, MemberChanges
    <3>3. Put(Now, p, n) \in Session
      BY <3>2 DEF Sound
    <3>4. Timed(Put(Now, p, n))
      BY <1>6, <3>2, <3>3, NowIsSound, Narrower
    <3> QED BY <2>2, <3>2, <3>4, NobodyNew
  <2> QED BY <1>7, <2>1, <2>2
<1>9. T \in TransportMap /\ Opened(T)
  BY <1>2, <1>4, TransportChanges DEF IInv, Around
<1>10. transport' \in TransportMap /\ Opened(transport')
  BY <1>1, <1>4, <1>9, StopsKeep
<1>11. calls' \subseteq CallRecord
  BY <1>1, <1>2, <1>3, StopCalls DEF IInv, Around
<1> QED BY <1>1, <1>8, <1>10, <1>11 DEF IInv, Around

(* A socket that closes, by itself or by a stop; a capability that expires; the  *)
(* start.                                                                    *)
LEMMA TransportSteps ==
  ASSUME IInv, NEW t \in Transports, SocketCloses(t) \/ HostStep(t)
  PROVE Moves /\ Around'
<1>1. transport[t] \in TransportRecord /\ transport \in TransportMap
  BY DEF IInv, Around, TransportMap
<1>2. ASSUME NEW m \in TransportRecord, transport' = [transport EXCEPT ![t] = m],
             m.panel = transport[t].panel, transport[t].phase # "unused", m.phase # "unused"
      PROVE transport' \in TransportMap /\ Opened(transport')
  BY <1>1, <1>2, TransportChanges DEF IInv, Around, Opened
<1>3. ASSUME transport[t].authorized, Disconnects(t)
      PROVE Moves /\ idlers' \in 0..MaxIdlers
  <2>1. transport[t].panel \in Panels
    BY <1>3 DEF IInv, Around, Opened
  <2>2. session' = Now \/ session' = Disconnect(Now, transport[t].panel)
    BY <1>3 DEF Disconnects
  <2>3. Moves
    <3>1. CASE session' = Now
      BY <3>1, NowIsSound, NobodyNew
    <3>2. CASE session' = Disconnect(Now, transport[t].panel)
      BY <2>1, <3>2, NowIsSound, GoesAway DEF Moves
    <3> QED BY <2>2, <3>1, <3>2
  <2>4. (\E s : ReleaseIfIdle(s)) \/ UNCHANGED idlers
    BY <1>3 DEF Disconnects
  <2> QED BY <2>3, <2>4, Idlers DEF IInv
<1>4. ASSUME UNCHANGED session PROVE Moves
  BY <1>4, NowIsSound, NobodyNew DEF IInv
<1>5. CASE SocketCloses(t)
  <2> DEFINE m == [transport[t] EXCEPT !.authorized = FALSE]
  <2>1. /\ transport' = [transport EXCEPT ![t] = m] /\ transport[t].phase = "listening"
        /\ transport[t].authorized /\ Disconnects(t) /\ UNCHANGED <<bound, calls, releases>>
    BY <1>5 DEF SocketCloses
  <2>2. m \in TransportRecord /\ m.panel = transport[t].panel /\ m.phase = "listening"
    BY <1>1, <2>1 DEF TransportRecord
  <2> HIDE DEF m
  <2>3. transport' \in TransportMap /\ Opened(transport')
    BY <1>2, <2>1, <2>2
  <2> QED BY <1>3, <2>1, <2>3 DEF IInv, Around
<1>6. CASE Stop(t)
  <2> DEFINE m == [transport[t] EXCEPT !.phase = "stopped", !.authorized = FALSE]
  <2>1. /\ transport' = [transport EXCEPT ![t] = m] /\ transport[t].phase = "stopping"
        /\ IF transport[t].authorized THEN Disconnects(t) ELSE UNCHANGED <<session, idlers>>
        /\ UNCHANGED <<bound, calls, releases>>
    BY <1>6 DEF Stop
  <2>2. m \in TransportRecord /\ m.panel = transport[t].panel /\ m.phase = "stopped"
    BY <1>1 DEF TransportRecord
  <2> HIDE DEF m
  <2>3. transport' \in TransportMap /\ Opened(transport')
    BY <1>2, <2>1, <2>2
  <2> QED BY <1>3, <1>4, <2>1, <2>3 DEF IInv, Around
<1>7. CASE CapabilityExpires(t)
  <2> DEFINE m == [transport[t] EXCEPT !.cap = "spent"]
  <2>1. /\ transport' = [transport EXCEPT ![t] = m] /\ transport[t].phase = "listening"
        /\ UNCHANGED <<session, bound, calls, idlers, releases>>
    BY <1>7 DEF CapabilityExpires
  <2>2. m \in TransportRecord /\ m.panel = transport[t].panel /\ m.phase = "listening"
    BY <1>1, <2>1 DEF TransportRecord
  <2> HIDE DEF m
  <2>3. transport' \in TransportMap /\ Opened(transport')
    BY <1>2, <2>1, <2>2
  <2> QED BY <1>4, <2>1, <2>3 DEF IInv, Around
<1>8. CASE Listen(t)
  <2> DEFINE m == [transport[t] EXCEPT !.phase = "listening"]
             p == transport[t].panel
  <2>1. /\ transport' = [transport EXCEPT ![t] = m] /\ transport[t].phase = "starting"
        /\ bound' = IF transport[t].live THEN [bound EXCEPT ![p] = @ \cup {t}] ELSE bound
        /\ UNCHANGED <<session, calls, idlers, releases>>
    BY <1>8 DEF Listen
  <2>2. m \in TransportRecord /\ m.panel = transport[t].panel /\ m.phase = "listening"
    BY <1>1 DEF TransportRecord
  <2> HIDE DEF m
  <2>3. transport' \in TransportMap /\ Opened(transport')
    BY <1>2, <2>1, <2>2
  <2>4. bound' \in BoundMap
    BY <2>1 DEF IInv, Around, BoundMap
  <2> QED BY <1>4, <2>1, <2>3, <2>4 DEF IInv, Around
<1> QED BY <1>5, <1>6, <1>7, <1>8 DEF HostStep

-----------------------------------------------------------------------------
(* What awaits the stops.                                                    *)

(* A call of openPanelTransport is for a transport of a panel.                *)
Joining ==
  \A c \in calls : c.by = "join" /\ c.of \in Transports => transport[c.of].panel \in Panels

LEMMA Forgetting ==
  ASSUME Around, NEW c \in calls, Forgets(c)
  PROVE bound' \in BoundMap
<1>1. c.bound \ c.stopping \in SUBSET Transports
  BY DEF Around, CallRecord
<1> QED BY <1>1 DEF Forgets, Around, BoundMap

LEMMA NowStays ==
  ASSUME IInv, session' \in {session, Now}
  PROVE Moves
<1>1. CASE session' = session
  BY <1>1, NowIsSound, NobodyNew DEF IInv
<1>2. CASE session' = Now
  BY <1>2, NowIsSound, NobodyNew
<1> QED BY <1>1, <1>2

LEMMA NewSessionIsSound == Sound(NewSession) /\ Timed(NewSession)
<1>1. /\ NoMember \in Member /\ NoMember.role = "spectator" /\ ~NoMember.in
  BY DEF NoMember, Member, Left
<1>2. /\ NewSession.controller = None /\ NewSession.member = [p \in Panels |-> NoMember]
      /\ NewSession \in Session
  BY <1>1 DEF NewSession, Session, Left
<1>3. Windows(NewSession) = {}
  BY <1>1, <1>2 DEF Windows
<1> QED BY <1>1, <1>2, <1>3, NoneAssumption DEF Sound, Timed

LEMMA CallSteps ==
  ASSUME IInv, Joining, NEW c \in calls, CallStep(c)
  PROVE Moves /\ Around'
<1> USE DEF IInv
<1>1. CASE Joined(c)
  <2> DEFINE m == [transport[c.of] EXCEPT !.phase = "starting"]
             T == [transport EXCEPT ![c.of] = m]
  <2>1. /\ calls' = calls \ {c} /\ Forgets(c) /\ transport' = T /\ c.by = "join"
        /\ UNCHANGED <<session, idlers, releases>>
    BY <1>1 DEF Joined
  <2>2. transport' \in TransportMap /\ Opened(transport')
    <3>1. CASE c.of \notin Transports
      BY <2>1, <3>1 DEF Around, TransportMap
    <3>2. CASE c.of \in Transports
      <4>1. transport[c.of] \in TransportRecord /\ transport[c.of].panel \in Panels
        BY <2>1, <3>2 DEF Around, TransportMap, Joining
      <4>2. m \in TransportRecord /\ m.panel \in Panels /\ m.phase = "starting"
        BY <4>1 DEF TransportRecord
      <4> HIDE DEF m
      <4> QED BY <2>1, <3>2, <4>2, TransportChanges DEF Around
    <3> QED BY <3>1, <3>2
  <2>3. bound' \in BoundMap
    BY <2>1, Forgetting
  <2> QED BY <2>1, <2>2, <2>3, NowStays DEF Around
<1>2. CASE Activated(c)
  <2>1. /\ calls' = calls \ {c} /\ Forgets(c)
        /\ UNCHANGED <<session, transport, idlers, releases>>
    BY <1>2 DEF Activated
  <2> QED BY <2>1, Forgetting, NowStays DEF Around
<1>3. CASE Released(c)
  <2>1. /\ calls' = calls \ {c} /\ Forgets(c) /\ session' = Now /\ ReleaseIfIdle(Now)
        /\ UNCHANGED <<transport, releases>>
    BY <1>3 DEF Released
  <2> QED BY <2>1, Forgetting, NowStays, Idlers DEF Around
<1>4. CASE DropIdle(c)
  <2> DEFINE B == UNION {bound[p] : p \in Panels}
             m(t) == [transport[t] EXCEPT !.live = FALSE]
             T == [t \in Transports |-> m(t)]
  <2>1. \/ /\ session' = NewSession /\ bound' = [p \in Panels |-> {}]
           /\ transport' = Stopping(B, T)
           /\ calls' = {[d EXCEPT !.live = FALSE] : d \in calls \ {c}}
           /\ UNCHANGED <<idlers, releases>>
        \/ /\ session' = Now /\ calls' = calls \ {c}
           /\ UNCHANGED <<bound, transport, idlers, releases>>
    BY <1>4 DEF DropIdle
  <2>2. CASE /\ session' = NewSession /\ bound' = [p \in Panels |-> {}]
             /\ transport' = Stopping(B, T)
             /\ calls' = {[d EXCEPT !.live = FALSE] : d \in calls \ {c}}
             /\ UNCHANGED <<idlers, releases>>
    <3>1. \A t \in Transports :
            /\ m(t) \in TransportRecord /\ m(t).phase = transport[t].phase
            /\ m(t).panel = transport[t].panel /\ m(t).authorized = transport[t].authorized
      BY DEF Around, TransportMap, TransportRecord
    <3>2. \A d \in calls : [d EXCEPT !.live = FALSE] \in CallRecord
      BY DEF Around, CallRecord
    <3> HIDE DEF m
    <3>3. T \in TransportMap /\ Opened(T)
      BY <3>1 DEF TransportMap, Around, Opened
    <3> HIDE DEF T, B
    <3>4. transport' \in TransportMap /\ Opened(transport')
      BY <2>2, <3>3, StopsKeep
    <3>5. Moves
      BY <2>2, NewSessionIsSound, NobodyNew DEF NewSession
    <3>6. bound' \in BoundMap
      BY <2>2 DEF BoundMap
    <3> QED BY <2>2, <3>2, <3>4, <3>5, <3>6 DEF Around
  <2>3. CASE /\ session' = Now /\ calls' = calls \ {c}
             /\ UNCHANGED <<bound, transport, idlers, releases>>
    BY <2>3, NowStays DEF Around
  <2> QED BY <2>1, <2>2, <2>3
<1> QED BY <1>1, <1>2, <1>3, <1>4 DEF CallStep

(* releasePanelTransport, stopAllTransports and the clock.                    *)
LEMMA OtherSteps ==
  ASSUME IInv, (\E p \in Panels : Release(p)) \/ StopAll \/ Tick
  PROVE Moves /\ Around'
<1>1. ASSUME NEW p \in Panels, Release(p) PROVE Moves /\ Around'
  <2> DEFINE s == Close(Now, p)
  <2>1. /\ session' = [s EXCEPT !.visible = s.visible \ {p}]
        /\ releases < MaxReleases /\ releases' = releases + 1
        /\ transport' = Stopping(bound[p], transport)
        /\ calls' = calls \cup {StopCall("release", p, None, bound[p], bound[p])}
        /\ UNCHANGED <<bound, idlers>>
    BY <1>1 DEF Release
  <2>2. Sound(s) /\ Timed(s) /\ Follows(Now, s)
    BY NowIsSound, Closes
  <2> HIDE DEF s
  <2>3. s.visible \ {p} \in SUBSET Panels
    BY <2>2 DEF Sound, Session
  <2>4. Moves
    BY <2>1, <2>2, <2>3, Shows DEF Moves
  <2>5. transport' \in TransportMap /\ Opened(transport')
    BY <2>1, StopsKeep DEF IInv, Around
  <2>6. bound[p] \in SUBSET Transports
    BY DEF IInv, Around, BoundMap
  <2>7. StopCall("release", p, None, bound[p], bound[p]) \in CallRecord
    BY <2>6, StopCalls
  <2>8. releases' \in 0..MaxReleases
    BY <2>1, BoundsAssumption DEF IInv, Around
  <2> QED BY <2>1, <2>4, <2>5, <2>7, <2>8 DEF IInv, Around
<1>2. CASE StopAll
  <2> DEFINE B == UNION {bound[p] : p \in Panels}
  <2>1. /\ idlers > 0 /\ idlers' = idlers - 1 /\ bound' = [p \in Panels |-> {}]
        /\ transport' = Stopping(B, transport)
        /\ calls' = calls \cup {StopCall("idle", None, None, {}, B)}
        /\ UNCHANGED <<session, releases>>
    BY <1>2 DEF StopAll
  <2>2. B \in SUBSET Transports
    BY DEF IInv, Around, BoundMap
  <2> HIDE DEF B
  <2>3. transport' \in TransportMap /\ Opened(transport')
    BY <2>1, StopsKeep DEF IInv, Around
  <2>4. StopCall("idle", None, None, {}, B) \in CallRecord
    BY <2>2, StopCalls
  <2>5. idlers' \in 0..MaxIdlers /\ bound' \in BoundMap
    BY <2>1, BoundsAssumption DEF IInv, Around, BoundMap
  <2> QED BY <2>1, <2>3, <2>4, <2>5, NowStays DEF IInv, Around
<1>3. CASE Tick
  <2>1. Moves
    BY <1>3, Passes, NowIsSound, NobodyNew DEF IInv
  <2>2. UNCHANGED <<bound, transport, calls, releases, idlers>>
    BY <1>3 DEF Tick, Rest
  <2> QED BY <2>1, <2>2 DEF IInv, Around
<1> QED BY <1>1, <1>2, <1>3

-----------------------------------------------------------------------------
(* Transports stay their panels'.                                            *)

LEMMA StopsKeepPanels ==
  ASSUME NEW T, NEW ts \in TransportMap
  PROVE \A t \in Transports : Stopping(T, ts)[t].panel = ts[t].panel
  BY DEF Stopping, TransportMap, TransportRecord

(* A call that awaits stops was under way, or is for a transport of a panel.   *)
LEMMA JoiningStays ==
  ASSUME Joining,
         \A t \in Transports : transport[t].panel \in Panels => transport'[t].panel \in Panels,
         \A c \in calls' : c.by = "join" =>
           \/ \E d \in calls : d.by = "join" /\ d.of = c.of
           \/ c.of \in Transports /\ transport'[c.of].panel \in Panels
  PROVE Joining'
  BY DEF Joining

LEMMA JoiningSteps ==
  ASSUME IInv, Joining, [Next]_vars
  PROVE Joining'
<1> DEFINE Stay == \A t \in Transports :
             transport[t].panel \in Panels => transport'[t].panel \in Panels
           Known == \A c \in calls' : c.by = "join" => c \in calls
<1>1. transport \in TransportMap /\ calls \subseteq CallRecord
  BY DEF IInv, Around
<1>2. ASSUME UNCHANGED transport PROVE Stay
  BY <1>2
<1>3. ASSUME NEW T, transport' = Stopping(T, transport) PROVE Stay
  BY <1>1, <1>3, StopsKeepPanels
<1>4. ASSUME Stay, Known PROVE Joining'
  BY <1>4, JoiningStays
<1>5. ASSUME UNCHANGED calls PROVE Known
  BY <1>5
<1>6. ASSUME NEW by \in {"activate", "release", "idle"}, NEW p, NEW t, NEW B, NEW S,
             calls' = calls \cup {StopCall(by, p, t, B, S)}
      PROVE Known
  BY <1>6 DEF StopCall
<1>7. ASSUME NEW t, NEW m, transport' = [transport EXCEPT ![t] = m],
             t \in Transports => m.panel = transport[t].panel
      PROVE Stay
  BY <1>1, <1>7 DEF TransportMap
<1>8. \A t \in Transports : transport[t] \in TransportRecord
  BY <1>1 DEF TransportMap
<1> HIDE DEF Stay, Known
<1>10. CASE UNCHANGED vars \/ RevokeSession \/ Tick \/ ReclaimDeadline
  BY <1>2, <1>4, <1>5, <1>10 DEF vars, RevokeSession, Tick, ReclaimDeadline, Rest
<1>11. ASSUME NEW p \in Panels, \/ ConnectPanel(p) \/ TakeControl(p) \/ ReclaimControl(p)
                                \/ ReleaseControl(p) \/ ShowPanel(p) \/ HidePanel(p)
       PROVE Joining'
  BY <1>2, <1>4, <1>5, <1>11
  DEF ConnectPanel, TakeControl, ReclaimControl, ReleaseControl, ShowPanel, HidePanel, Rest
<1>12. ASSUME NEW p \in Panels, Release(p) PROVE Joining'
  BY <1>3, <1>4, <1>6, <1>12 DEF Release
<1>13. CASE StopAll
  BY <1>3, <1>4, <1>6, <1>13 DEF StopAll
<1>14. ASSUME NEW t \in Transports, NEW p \in Panels, Open(t, p) PROVE Joining'
  <2> DEFINE s == Reserve(Now, p)
             g == s.member[p].next
             obsolete == {u \in bound[p] : transport[u].gen \notin {g, s.member[p].auth}}
             m == [panel |-> p, gen |-> g, authorized |-> FALSE, cap |-> "pending", live |-> TRUE,
                   phase |-> IF obsolete = {} THEN "starting" ELSE "joining"]
             T == [transport EXCEPT ![t] = m]
             call == StopCall("join", p, t, bound[p], obsolete)
  <2>1. transport' = Stopping(obsolete, T) /\ calls' \subseteq calls \cup {call}
    BY <1>14 DEF Open
  <2>2. g \in Nat
    BY NowIsSound, Connects
  <2> HIDE DEF s, g, obsolete
  <2>3. m \in TransportRecord /\ m.panel = p
    BY <2>2 DEF TransportRecord
  <2> HIDE DEF m
  <2>4. /\ T \in TransportMap
        /\ \A u \in Transports : T[u] = IF u = t THEN m ELSE transport[u]
    BY <1>1, <2>3 DEF TransportMap
  <2> HIDE DEF T
  <2>5. \A u \in Transports : transport'[u].panel = T[u].panel
    BY <2>1, <2>4, StopsKeepPanels
  <2>6. call.of = t
    BY DEF StopCall
  <2> HIDE DEF call
  <2>7. /\ \A u \in Transports : transport[u].panel \in Panels => transport'[u].panel \in Panels
        /\ transport'[t].panel \in Panels
    BY <2>3, <2>4, <2>5
  <2>8. \A c \in calls' : c.by = "join" =>
           \/ \E d \in calls : d.by = "join" /\ d.of = c.of
           \/ c.of \in Transports /\ transport'[c.of].panel \in Panels
    BY <2>1, <2>6, <2>7
  <2> QED BY <2>7, <2>8, JoiningStays
<1>15. ASSUME NEW t \in Transports, Redeem(t) PROVE Joining'
  <2> DEFINE m == [transport[t] EXCEPT !.authorized = TRUE, !.cap = "spent"]
             T == [transport EXCEPT ![t] = m]
  <2>1. PICK S, p : /\ transport' = Stopping(S, [transport EXCEPT ![t].authorized = TRUE,
                                                                  ![t].cap = "spent"])
                    /\ calls' = calls \/ calls' = calls \cup {StopCall("activate", p, t, bound[p], S)}
    BY <1>15 DEF Redeem
  <2>2. /\ m \in TransportRecord /\ m.panel = transport[t].panel
        /\ [transport EXCEPT ![t].authorized = TRUE, ![t].cap = "spent"] = T
    BY <1>1, <1>8 DEF TransportRecord, TransportMap
  <2> HIDE DEF m
  <2>3. T \in TransportMap /\ \A u \in Transports : T[u].panel = transport[u].panel
    BY <1>1, <2>2 DEF TransportMap
  <2>7. transport' = Stopping(S, T)
    BY <2>1, <2>2
  <2> HIDE DEF T
  <2>4. \A u \in Transports : transport'[u].panel = transport[u].panel
    BY <2>3, <2>7, StopsKeepPanels
  <2>5. Stay
    BY <2>4 DEF Stay
  <2>6. Known
    BY <1>5, <1>6, <2>1
  <2> QED BY <1>4, <2>5, <2>6
<1>16. ASSUME NEW t \in Transports, SocketCloses(t) \/ HostStep(t) PROVE Joining'
  <2>1. PICK m : transport' = [transport EXCEPT ![t] = m] /\ m.panel = transport[t].panel
    <3>1. CASE SocketCloses(t)
      <4>1. transport' = [transport EXCEPT ![t] = [transport[t] EXCEPT !.authorized = FALSE]]
        BY <3>1 DEF SocketCloses
      <4>2. [transport[t] EXCEPT !.authorized = FALSE].panel = transport[t].panel
        BY <1>8 DEF TransportRecord
      <4> QED BY <4>1, <4>2
    <3>2. CASE Listen(t)
      <4>1. transport' = [transport EXCEPT ![t] = [transport[t] EXCEPT !.phase = "listening"]]
        BY <3>2 DEF Listen
      <4>2. [transport[t] EXCEPT !.phase = "listening"].panel = transport[t].panel
        BY <1>8 DEF TransportRecord
      <4> QED BY <4>1, <4>2
    <3>3. CASE Stop(t)
      <4>1. transport' = [transport EXCEPT ![t] =
              [transport[t] EXCEPT !.phase = "stopped", !.authorized = FALSE]]
        BY <3>3 DEF Stop
      <4>2. [transport[t] EXCEPT !.phase = "stopped", !.authorized = FALSE].panel
              = transport[t].panel
        BY <1>8 DEF TransportRecord
      <4> QED BY <4>1, <4>2
    <3>4. CASE CapabilityExpires(t)
      <4>1. transport' = [transport EXCEPT ![t] = [transport[t] EXCEPT !.cap = "spent"]]
        BY <3>4 DEF CapabilityExpires
      <4>2. [transport[t] EXCEPT !.cap = "spent"].panel = transport[t].panel
        BY <1>8 DEF TransportRecord
      <4> QED BY <4>1, <4>2
    <3> QED BY <1>16, <3>1, <3>2, <3>3, <3>4 DEF HostStep
  <2>2. UNCHANGED calls
    BY <1>16 DEF SocketCloses, HostStep, Listen, Stop, CapabilityExpires
  <2> QED BY <1>4, <1>5, <1>7, <2>1, <2>2
<1>17. ASSUME NEW c \in calls, CallStep(c) PROVE Joining'
  <2>1. CASE Joined(c)
    <3> DEFINE m == [transport[c.of] EXCEPT !.phase = "starting"]
    <3>1. transport' = [transport EXCEPT ![c.of] = m] /\ calls' = calls \ {c}
      BY <2>1 DEF Joined
    <3>2. c.of \in Transports => m.panel = transport[c.of].panel
      BY <1>8 DEF TransportRecord
    <3> HIDE DEF m
    <3>3. Known
      BY <3>1 DEF Known
    <3> QED BY <1>4, <1>7, <3>1, <3>2, <3>3
  <2>2. CASE Activated(c) \/ Released(c)
    <3>1. UNCHANGED transport /\ calls' = calls \ {c}
      BY <2>2 DEF Activated, Released
    <3>2. Known
      BY <3>1 DEF Known
    <3> QED BY <1>2, <1>4, <3>1, <3>2
  <2>3. CASE DropIdle(c)
    <3> DEFINE B == UNION {bound[p] : p \in Panels}
               m(t) == [transport[t] EXCEPT !.live = FALSE]
               T == [t \in Transports |-> m(t)]
               gone(d) == [d EXCEPT !.live = FALSE]
    <3>1. \/ transport' = Stopping(B, T) /\ calls' = {gone(d) : d \in calls \ {c}}
          \/ UNCHANGED transport /\ calls' = calls \ {c}
      BY <2>3 DEF DropIdle
    <3>2. CASE transport' = Stopping(B, T) /\ calls' = {gone(d) : d \in calls \ {c}}
      <4>1. \A t \in Transports : m(t) \in TransportRecord /\ m(t).panel = transport[t].panel
        BY <1>8 DEF TransportRecord
      <4> HIDE DEF m
      <4>2. T \in TransportMap /\ \A t \in Transports : T[t].panel = transport[t].panel
        BY <4>1 DEF TransportMap
      <4> HIDE DEF T, B
      <4>3. \A t \in Transports : transport'[t].panel = transport[t].panel
        BY <3>2, <4>2, StopsKeepPanels
      <4>4. \A d \in calls : gone(d).by = d.by /\ gone(d).of = d.of
        BY <1>1 DEF CallRecord
      <4> HIDE DEF gone
      <4>5. \A e \in calls' : e.by = "join" => \E d \in calls : d.by = "join" /\ d.of = e.of
        BY <3>2, <4>4
      <4> QED BY <4>3, <4>5, JoiningStays
    <3>3. CASE UNCHANGED transport /\ calls' = calls \ {c}
      <4>1. Known
        BY <3>3 DEF Known
      <4> QED BY <1>2, <1>4, <3>3, <4>1
    <3> QED BY <3>1, <3>2, <3>3
  <2> QED BY <1>17, <2>1, <2>2, <2>3 DEF CallStep
<1> QED
  BY <1>10, <1>11, <1>12, <1>13, <1>14, <1>15, <1>16, <1>17, StreamersAssumption DEF Next

-----------------------------------------------------------------------------
(* The theorems.                                                             *)

LEMMA NextSteps ==
  ASSUME IInv, Joining, [Next]_vars
  PROVE IInv' /\ Joining' /\ (Moves \/ UNCHANGED vars)
<1>1. CASE UNCHANGED vars
  <2>1. IInv'
    BY <1>1 DEF vars, IInv, Around
  <2> QED BY <1>1, <2>1, JoiningSteps
<1>2. CASE Next
  <2>1. ASSUME Moves /\ Around' PROVE IInv' /\ Moves
    BY <2>1 DEF Moves, IInv
  <2>2. Moves /\ Around'
    BY <1>2, SessionSteps, OpenSteps, RedeemSteps, TransportSteps, CallSteps, OtherSteps,
       StreamersAssumption DEF Next
  <2> QED BY <1>2, <2>1, <2>2, JoiningSteps
<1> QED BY <1>1, <1>2

LEMMA Invariance == Spec => [](IInv /\ Joining)
<1>1. Init => IInv /\ Joining
  <2> SUFFICES ASSUME Init PROVE IInv /\ Joining
    OBVIOUS
  <2>1. Unused \in TransportRecord /\ Unused.phase = "unused" /\ ~Unused.authorized
    BY DEF Unused, TransportRecord
  <2>2. transport \in TransportMap /\ Opened(transport)
    BY <2>1 DEF Init, TransportMap, Opened
  <2>3. bound \in BoundMap /\ idlers \in 0..MaxIdlers /\ releases \in 0..MaxReleases
    BY BoundsAssumption DEF Init, BoundMap
  <2> QED BY <2>2, <2>3, NewSessionIsSound DEF Init, IInv, Around, Joining
<1>2. (IInv /\ Joining) /\ [Next]_vars => (IInv /\ Joining)'
  BY NextSteps
<1> QED BY <1>1, <1>2, PTL DEF Spec

(* The variables keep their types for every set of panels and transports and   *)
(* every length of the window, whatever order the calls, stops and ticks come   *)
(* in.                                                                       *)
THEOREM TypeCorrect == Spec => []TypeOK
<1>1. IInv => TypeOK
  BY DEF IInv, Sound, Around, BoundMap, TransportMap, TypeOK
<1> QED BY <1>1, Invariance, PTL

(* However many panels connect, leave, expire and take control, at most one is  *)
(* in control; it is a connected member, and the roles agree with it.           *)
THEOREM OnePanelControls == Spec => []OneController
<1>1. IInv => OneController
  BY DEF IInv, Sound, OneController
<1> QED BY <1>1, Invariance, PTL

(* The window of every panel that went away is timed: the timer that expires it *)
(* is armed for its end or earlier.                                           *)
THEOREM EveryWindowIsTimed == Spec => []WindowsAreTimed
<1>1. IInv => WindowsAreTimed
  BY DEF IInv, Timed, WindowsAreTimed
<1> QED BY <1>1, Invariance, PTL

(* While a panel may reclaim control, no other member comes into it.            *)
THEOREM ReclaimHolds == Spec => ReclaimIsKept
<1> DEFINE p == session'.controller
           A == p \notin {None, session.controller} /\ Now.owner # None
                  => p = Now.owner \/ ~Now.member[p].in
<1>1. IInv /\ Joining /\ [Next]_vars => [A]_vars
  BY NextSteps, NowIsSound DEF Moves, Follows
<1>2. Spec => [][A]_vars
  BY <1>1, Invariance, PTL DEF Spec
<1> QED BY <1>2 DEF ReclaimIsKept

(* A panel whose window is over does not come into control by coming back.      *)
THEOREM LateOnesWatch == Spec => LateReturnWatches
<1> DEFINE p == session'.controller
           A == p \notin {None, session.controller} /\ p \in Now.expired => Now.member[p].in
<1>1. IInv /\ Joining /\ [Next]_vars => [A]_vars
  BY NextSteps, NowIsSound DEF Moves, Follows
<1>2. Spec => [][A]_vars
  BY <1>1, Invariance, PTL DEF Spec
<1> QED BY <1>2 DEF LateReturnWatches
=============================================================================
