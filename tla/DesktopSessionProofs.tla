------------------------ MODULE DesktopSessionProofs ------------------------
(***************************************************************************)
(* Theorems about DesktopSession, for any devices, calls and losses.       *)
(*                                                                         *)
(* The base of all (Base): a connection is nothing to anybody before its   *)
(* request is sent, a device holds connections of its own only, and a      *)
(* request is in one place until it is answered.  On it rest what ties the *)
(* two ends of a connection (Linked) and, where nobody calls who is        *)
(* called, that a device has one controller (OneController).               *)
(***************************************************************************)
EXTENDS DesktopSession, SequenceTheorems, TLAPS

-----------------------------------------------------------------------------
(* The invariants.                                                         *)

\* The request of c has been sent.
Dialled(c) == call[c] \notin {"none", "checked", "dial"}

\* Both ends are known from the start; before the request is sent nothing else is.
Known == \A c \in Conns : call[c] # "none" => ends[c] \in Calls

Unsent ==
    \A c \in Conns : ~Dialled(c) =>
        /\ said[c] = 0 /\ ans[c] = "none" /\ ctl[c] = "none" /\ host[c] = "none"
        /\ c \notin open /\ c \notin armed
        /\ toCtl[c] = <<>> /\ toHost[c] = <<>>

\* A connection that a device holds is one of its own.
Holds(f) == \A n \in Nodes : f[n] # None => Dialled(f[n]) /\ n \in {From(f[n]), To(f[n])}

\* The request of c has come to n and nobody has answered it.
Unanswered(c, n) == Dialled(c) /\ To(c) = n /\ said[c] = 0 /\ ans[c] = "none"

\* A request is in one place: the queue, the accept loop, the session, or the
\* hands of the user who accepts it.
Queued ==
    \A n \in Nodes : \A i \in 1..Len(inc[n]) :
        /\ Unanswered(inc[n][i], n) /\ inc[n][i] \notin {acc[n], pend[n]}
        /\ \A j \in 1..Len(inc[n]) : i # j => inc[n][i] # inc[n][j]
Looked  == \A n \in Nodes : acc[n] # None => Unanswered(acc[n], n) /\ acc[n] # pend[n]
Asked   == \A n \in Nodes : pend[n] # None => Unanswered(pend[n], n)
Sending == \A c \in Conns : ans[c] = "send" => said[c] = 0
Places  == Queued /\ Looked /\ Asked /\ Sending /\ AnsweredOnce

Base == TypeOK /\ Known /\ Unsent /\ Holds(link) /\ Holds(task) /\ Places

-----------------------------------------------------------------------------
(* Lemmas about the operators the actions are built from.                  *)

\* A message that goes out, or not, leaves the messages of a type.
LEMMA SentType ==
    ASSUME NEW S, NEW queue \in [Conns -> Seq(S)], NEW c, NEW msg \in S
    PROVE  Sent(queue, c, msg) \in [Conns -> Seq(S)]
<1>1. c \in Conns => Append(queue[c], msg) \in Seq(S)
  BY AppendProperties
<1> QED
  BY <1>1 DEF Sent

\* What is read, and what is left then.
LEMMA Reading ==
    ASSUME NEW S, NEW s \in Seq(S), s # <<>>
    PROVE  /\ Tail(s) \in Seq(S) /\ Head(s) \in S /\ Head(s) = s[1]
           /\ Len(s) \in Nat \ {0} /\ Len(Tail(s)) = Len(s) - 1
           /\ \A i \in 1..Len(Tail(s)) : Tail(s)[i] = s[i + 1]
BY HeadTailProperties, LenProperties, EmptySeq

\* What is there when something comes.
LEMMA Coming ==
    ASSUME NEW S, NEW s \in Seq(S), NEW e \in S
    PROVE  /\ Append(s, e) \in Seq(S)
           /\ Len(s) \in Nat /\ Len(Append(s, e)) = Len(s) + 1
           /\ Append(s, e)[Len(s) + 1] = e
           /\ \A i \in 1..Len(s) : Append(s, e)[i] = s[i]
BY AppendProperties, LenProperties

-----------------------------------------------------------------------------
(* Where a request is.                                                     *)

\* What has been sent stays sent, and goes between the same devices.
Onward == \A c \in Conns : Dialled(c) => Dialled(c)' /\ ends'[c] = ends[c]

LEMMA OnwardKeeps ==
    ASSUME Onward, NEW c \in Conns, NEW n, Unanswered(c, n), said'[c] = said[c],
           ans'[c] = ans[c]
    PROVE  Unanswered(c, n)'
BY DEF Onward, Unanswered, To

\* What a place holds is a connection.
LEMMA PlacesType ==
    ASSUME TypeOK
    PROVE  /\ None \notin Conns
           /\ \A n \in Nodes : \A i \in 1..Len(inc[n]) : inc[n][i] \in Conns
           /\ \A n \in Nodes : acc[n] # None => acc[n] \in Conns
           /\ \A n \in Nodes : pend[n] # None => pend[n] \in Conns
<1>1. None \notin Conns
  BY DEF None, Conns
<1>2. \A n \in Nodes : inc[n] \in Seq(Conns)
  BY DEF TypeOK
<1>3. \A n \in Nodes : \A i \in 1..Len(inc[n]) : inc[n][i] \in Conns
  BY <1>2, ElementOfSeq
<1> QED
  BY <1>1, <1>3 DEF TypeOK, Slots

\* A request in one place is in no other.
LEMMA OnePlace ==
    ASSUME Base, NEW n \in Nodes
    PROVE  /\ \A i \in 1..Len(inc[n]) : \A m \in Nodes : inc[n][i] \notin {acc[m], pend[m]}
           /\ \A i \in 1..Len(inc[n]) : \A m \in Nodes : \A j \in 1..Len(inc[m]) :
                 inc[n][i] = inc[m][j] => n = m /\ i = j
           /\ acc[n] # None => \A m \in Nodes : acc[n] # pend[m] /\ (acc[n] = acc[m] => n = m)
           /\ pend[n] # None => \A m \in Nodes : pend[n] = pend[m] => n = m
<1>1. \A m \in Nodes : \A i \in 1..Len(inc[m]) : To(inc[m][i]) = m
  BY DEF Base, Places, Queued, Unanswered
<1>2. \A m \in Nodes : acc[m] # None => To(acc[m]) = m
  BY DEF Base, Places, Looked, Unanswered
<1>3. \A m \in Nodes : pend[m] # None => To(pend[m]) = m
  BY DEF Base, Places, Asked, Unanswered
<1>4. \A i \in 1..Len(inc[n]) : inc[n][i] # None
  BY PlacesType DEF Base
<1> QED
  BY <1>1, <1>2, <1>3, <1>4 DEF Base, Places, Queued, Looked

\* Requests leave their places, those in gone because they are answered or the
\* user has them in hand.
LEMMA PlacesShrink ==
    ASSUME Base, Onward, NEW gone,
           \A c \in Conns \ gone : said'[c] = said[c] /\ ans'[c] = ans[c],
           \A c \in Conns \cap gone : said'[c] \in {0, 1} /\ (ans'[c] = "send" => said'[c] = 0),
           \A n \in Nodes : acc'[n] \in {acc[n], None} \ gone,
           \A n \in Nodes : pend'[n] \in {pend[n], None} \ gone,
           \A n \in Nodes : inc'[n] = inc[n] \/ (inc[n] # <<>> /\ inc'[n] = Tail(inc[n])),
           \A n \in Nodes : \A i \in 1..Len(inc'[n]) : inc'[n][i] \notin gone
    PROVE  Places'
<1>1. \A c \in Conns, n \in Nodes : Unanswered(c, n) /\ c \notin gone => Unanswered(c, n)'
  BY OnwardKeeps DEF Unanswered
<1>2. Queued'
  <2> SUFFICES ASSUME NEW n \in Nodes, NEW i \in 1..Len(inc'[n])
               PROVE  /\ Unanswered(inc[n][i], n)' /\ inc'[n][i] \notin {acc'[n], pend'[n]}
                      /\ \A j \in 1..Len(inc'[n]) : i # j => inc'[n][i] # inc'[n][j]
    BY DEF Queued
  <2>1. inc[n] \in Seq(Conns)
    BY DEF Base, TypeOK
  <2>2. PICK k \in 0..1 : /\ \A j \in 1..Len(inc'[n]) : j + k \in 1..Len(inc[n])
                          /\ \A j \in 1..Len(inc'[n]) : inc'[n][j] = inc[n][j + k]
    <3>1. CASE inc'[n] = inc[n]
      BY <2>1, <3>1, LenProperties
    <3>2. CASE inc[n] # <<>> /\ inc'[n] = Tail(inc[n])
      BY <2>1, <3>2, Reading
    <3> QED
      BY <3>1, <3>2
  <2>3. inc'[n][i] \in Conns /\ inc'[n][i] # None
    BY <2>2, PlacesType DEF Base
  <2>4. Unanswered(inc'[n][i], n)
    BY <2>2 DEF Base, Places, Queued
  <2>5. inc'[n][i] \notin {acc[n], pend[n]}
    BY <2>2 DEF Base, Places, Queued
  <2>6. \A j \in 1..Len(inc'[n]) : i # j => inc'[n][i] # inc'[n][j]
    BY <2>2 DEF Base, Places, Queued
  <2>7. inc'[n][i] \notin gone
    OBVIOUS
  <2>8. Unanswered(inc[n][i], n)'
    <3>1. PICK c \in Conns : c = inc'[n][i]
      BY <2>3
    <3>2. Unanswered(c, n)'
      BY <1>1, <2>4, <2>7, <3>1
    <3> QED
      BY <3>1, <3>2 DEF Unanswered, Dialled, To
  <2>9. inc'[n][i] \notin {acc'[n], pend'[n]}
    <3>1. acc'[n] \in {acc[n], None} /\ pend'[n] \in {pend[n], None}
      OBVIOUS
    <3> QED
      BY <3>1, <2>3, <2>5
  <2> QED
    BY <2>6, <2>8, <2>9
<1>3. Looked'
  BY <1>1, PlacesType DEF Base, Places, Looked
<1>4. Asked'
  BY <1>1, PlacesType DEF Base, Places, Asked
<1>5. Sending' /\ AnsweredOnce'
  BY DEF Base, Places, Sending, AnsweredOnce
<1> QED
  BY <1>2, <1>3, <1>4, <1>5 DEF Places

\* Nothing happens to the requests.
LEMMA PlacesStay ==
    ASSUME Base, Onward, UNCHANGED <<inc, acc, pend, ans, said>>
    PROVE  Places'
<1>1. \A n \in Nodes : {acc[n], pend[n]} \subseteq {acc[n], pend[n], None} \ {}
  OBVIOUS
<1> QED
  BY PlacesShrink

\* A session forgets its request.
LEMMA PlacesForget ==
    ASSUME Base, Onward, NEW n, pend' = [pend EXCEPT ![n] = None],
           UNCHANGED <<inc, acc, ans, said>>
    PROVE  Places'
<1> DEFINE gone == {}
<1>1. \A m \in Nodes : pend'[m] \in {pend[m], None} \ gone
  BY DEF Base, TypeOK, Slots
<1>2. /\ \A c \in Conns \ gone : said'[c] = said[c] /\ ans'[c] = ans[c]
      /\ \A c \in Conns \cap gone : said'[c] \in {0, 1} /\ (ans'[c] = "send" => said'[c] = 0)
      /\ \A m \in Nodes : acc'[m] \in {acc[m], None} \ gone
      /\ \A m \in Nodes : inc'[m] = inc[m] \/ (inc[m] # <<>> /\ inc'[m] = Tail(inc[m]))
      /\ \A m \in Nodes : \A i \in 1..Len(inc'[m]) : inc'[m][i] \notin gone
  OBVIOUS
<1> HIDE DEF gone
<1> QED
  BY <1>1, <1>2, PlacesShrink

\* The request c, which the accept loop or the session had, is answered.
LEMMA PlacesAnswer ==
    ASSUME Base, Onward, NEW n \in Nodes, NEW c \in {acc[n], pend[n]}, c # None,
           said' = [said EXCEPT ![c] = @ + 1], UNCHANGED <<inc, ans>>,
           pend' = [pend EXCEPT ![n] = None],
           acc' = [acc EXCEPT ![n] = IF c = @ THEN None ELSE @]
    PROVE  Places'
<1>1. c \in Conns
  BY PlacesType DEF Base
<1>2. said[c] = 0 /\ ans[c] = "none"
  BY DEF Base, Places, Looked, Asked, Unanswered
<1>3. \A m \in Nodes : acc'[m] \in {acc[m], None} \ {c}
  <2> SUFFICES ASSUME NEW m \in Nodes PROVE acc'[m] \in {acc[m], None} \ {c}
    OBVIOUS
  <2>1. acc[m] = c => m = n
    BY OnePlace
  <2> QED
    BY <1>1, <2>1, PlacesType DEF Base, TypeOK, Slots
<1>4. \A m \in Nodes : pend'[m] \in {pend[m], None} \ {c}
  <2> SUFFICES ASSUME NEW m \in Nodes PROVE pend'[m] \in {pend[m], None} \ {c}
    OBVIOUS
  <2>1. pend[m] = c => m = n
    BY OnePlace
  <2> QED
    BY <1>1, <2>1, PlacesType DEF Base, TypeOK, Slots
<1>5. \A m \in Nodes : \A i \in 1..Len(inc[m]) : inc[m][i] # c
  BY OnePlace
<1>6. said'[c] = 1 /\ \A d \in Conns \ {c} : said'[d] = said[d]
  BY <1>1, <1>2 DEF Base, TypeOK
<1>7. /\ \A d \in Conns \ {c} : said'[d] = said[d] /\ ans'[d] = ans[d]
      /\ \A d \in Conns \cap {c} : said'[d] \in {0, 1} /\ (ans'[d] = "send" => said'[d] = 0)
      /\ \A m \in Nodes : inc'[m] = inc[m] \/ (inc[m] # <<>> /\ inc'[m] = Tail(inc[m]))
      /\ \A m \in Nodes : \A i \in 1..Len(inc'[m]) : inc'[m][i] \notin {c}
  BY <1>2, <1>5, <1>6
<1> QED
  BY <1>3, <1>4, <1>7, PlacesShrink

\* A request reaches the endpoint of the device it is for.
LEMMA PlacesDial ==
    ASSUME Base, NEW c \in Conns, Dial(c)
    PROVE  Places'
<1>1. To(c) \in Nodes /\ inc[To(c)] \in Seq(Conns) /\ call[c] = "dial"
  BY ConstantsOK DEF Base, TypeOK, Known, To, Dial
<1>2. said[c] = 0 /\ ans[c] = "none" /\ ~Dialled(c)
  BY <1>1 DEF Base, Unsent, Dialled
<1>3. Dialled(c)' /\ \A d \in Conns : Dialled(d) => Dialled(d)'
  BY DEF Dialled, Dial, Base, TypeOK
<1>4. UNCHANGED <<acc, pend, ans, said, ends>>
  BY DEF Dial, infoVars
<1>5. inc' = [inc EXCEPT ![To(c)] = Append(inc[To(c)], c)]
  BY DEF Dial
<1>6. \A d \in Conns, n \in Nodes : Unanswered(d, n) => Unanswered(d, n)'
  BY <1>3, <1>4 DEF Unanswered, To
<1>7. \A n \in Nodes : n = To(c) => Unanswered(c, n)'
  BY <1>2, <1>3, <1>4 DEF Unanswered, To
<1>8. \A n \in Nodes : acc[n] # c /\ pend[n] # c
  BY <1>2, PlacesType DEF Base, Places, Looked, Asked, Unanswered
<1>9. \A n \in Nodes : \A i \in 1..Len(inc[n]) : inc[n][i] # c
  BY <1>2 DEF Base, Places, Queued, Unanswered
<1>10. Queued'
  <2> SUFFICES ASSUME NEW n \in Nodes, NEW i \in 1..Len(inc'[n])
               PROVE  /\ Unanswered(inc[n][i], n)' /\ inc'[n][i] \notin {acc'[n], pend'[n]}
                      /\ \A j \in 1..Len(inc'[n]) : i # j => inc'[n][i] # inc'[n][j]
    BY DEF Queued
  <2>1. CASE n # To(c)
    <3>1. inc'[n] = inc[n]
      BY <2>1, <1>1, <1>5 DEF Base, TypeOK
    <3>2. PICK d \in Conns : d = inc[n][i]
      BY <3>1, PlacesType DEF Base
    <3>3. Unanswered(d, n)'
      BY <3>1, <3>2, <1>6 DEF Base, Places, Queued
    <3>4. Unanswered(inc[n][i], n)'
      BY <3>1, <3>2, <3>3 DEF Unanswered, Dialled, To
    <3> QED
      BY <3>1, <3>4, <1>4 DEF Base, Places, Queued
  <2>2. CASE n = To(c)
    <3>1. /\ inc'[n] = Append(inc[n], c)
          /\ Len(inc[n]) \in Nat /\ Len(inc'[n]) = Len(inc[n]) + 1
          /\ inc'[n][Len(inc[n]) + 1] = c
          /\ \A j \in 1..Len(inc[n]) : inc'[n][j] = inc[n][j]
      BY <2>2, <1>1, <1>5, Coming DEF Base, TypeOK
    <3>2. PICK d \in Conns : d = inc'[n][i]
      BY <3>1, PlacesType DEF Base
    <3>3. (d = c /\ i = Len(inc[n]) + 1) \/ (i \in 1..Len(inc[n]) /\ d = inc[n][i])
      BY <3>1, <3>2
    <3>4. Unanswered(d, n)'
      <4>1. CASE d = c
        BY <4>1, <2>2, <1>7
      <4>2. CASE i \in 1..Len(inc[n]) /\ d = inc[n][i]
        BY <4>2, <1>6 DEF Base, Places, Queued
      <4> QED
        BY <3>3, <4>1, <4>2
    <3>5. Unanswered(inc[n][i], n)'
      BY <3>2, <3>4 DEF Unanswered, Dialled, To
    <3>6. d \notin {acc'[n], pend'[n]}
      BY <3>3, <1>4, <1>8 DEF Base, Places, Queued
    <3>7. ASSUME NEW j \in 1..Len(inc'[n]), i # j PROVE d # inc'[n][j]
      <4>1. \/ j = Len(inc[n]) + 1 /\ inc'[n][j] = c
            \/ j \in 1..Len(inc[n]) /\ inc'[n][j] = inc[n][j]
        BY <3>1
      <4> QED
        BY <4>1, <3>3, <3>7, <1>9 DEF Base, Places, Queued
    <3> QED
      BY <3>2, <3>5, <3>6, <3>7
  <2> QED
    BY <2>1, <2>2
<1>11. Looked' /\ Asked'
  BY <1>4, <1>6, PlacesType DEF Base, Places, Looked, Asked
<1> QED
  BY <1>4, <1>10, <1>11 DEF Base, Places, Sending, AnsweredOnce

\* The accept loop reads the first request.
LEMMA PlacesTake ==
    ASSUME Base, NEW n \in Nodes, Take(n)
    PROVE  Places'
<1>1. UNCHANGED <<pend, ans, said, ends, call>> /\ Onward
  BY DEF Take, infoVars, Onward, Dialled
<1>2. inc[n] \in Seq(Conns) /\ inc[n] # <<>> /\ acc[n] = None
  BY DEF Base, TypeOK, Take
<1>3. /\ Head(inc[n]) = inc[n][1] /\ Len(inc[n]) \in Nat \ {0}
      /\ Tail(inc[n]) \in Seq(Conns) /\ Len(Tail(inc[n])) = Len(inc[n]) - 1
      /\ \A i \in 1..Len(Tail(inc[n])) : Tail(inc[n])[i] = inc[n][i + 1]
  BY <1>2, Reading
<1>4. /\ inc' = [inc EXCEPT ![n] = Tail(inc[n])]
      /\ acc' = [acc EXCEPT ![n] = inc[n][1]]
  BY <1>3 DEF Take
<1>5. \A d \in Conns, m \in Nodes : Unanswered(d, m) => Unanswered(d, m)'
  BY <1>1 DEF Unanswered, Dialled, To
<1>6. Queued'
  <2> SUFFICES ASSUME NEW m \in Nodes, NEW i \in 1..Len(inc'[m])
               PROVE  /\ Unanswered(inc[m][i], m)' /\ inc'[m][i] \notin {acc'[m], pend'[m]}
                      /\ \A j \in 1..Len(inc'[m]) : i # j => inc'[m][i] # inc'[m][j]
    BY DEF Queued
  <2>1. PICK k \in 0..1 : /\ \A j \in 1..Len(inc'[m]) : j + k \in 1..Len(inc[m])
                          /\ \A j \in 1..Len(inc'[m]) : inc'[m][j] = inc[m][j + k]
                          /\ acc'[m] = acc[m] \/ (k = 1 /\ acc'[m] = inc[m][1])
    <3>1. CASE m # n
      <4>1. inc'[m] = inc[m] /\ acc'[m] = acc[m] /\ inc[m] \in Seq(Conns)
        BY <3>1, <1>4 DEF Base, TypeOK
      <4> QED
        BY <4>1, LenProperties
    <3>2. CASE m = n
      BY <1>3, <1>4, <3>2 DEF Base, TypeOK, Slots
    <3> QED
      BY <3>1, <3>2
  <2>2. PICK d \in Conns : d = inc'[m][i]
    BY <2>1, PlacesType DEF Base
  <2>3. d = inc[m][i + k] /\ i + k \in 1..Len(inc[m])
    BY <2>1, <2>2
  <2>4. Unanswered(d, m)'
    BY <2>3, <1>5 DEF Base, Places, Queued
  <2>5. Unanswered(inc[m][i], m)'
    BY <2>2, <2>4 DEF Unanswered, Dialled, To
  <2>6. d \notin {acc[m], pend[m]} /\ pend' = pend
    BY <2>3, <1>1 DEF Base, Places, Queued
  <2>7. k = 1 => d # inc[m][1]
    BY <2>3 DEF Base, Places, Queued
  <2>8. \A j \in 1..Len(inc'[m]) : i # j => d # inc'[m][j]
    BY <2>1, <2>3 DEF Base, Places, Queued
  <2> QED
    BY <2>1, <2>2, <2>5, <2>6, <2>7, <2>8
<1>7. Unanswered(inc[n][1], n) /\ inc[n][1] # pend[n] /\ inc[n][1] \in Conns
  BY <1>3, PlacesType DEF Base, Places, Queued
<1>8. Looked'
  <2> SUFFICES ASSUME NEW m \in Nodes, acc'[m] # None
               PROVE  Unanswered(acc[m], m)' /\ acc'[m] # pend'[m]
    BY DEF Looked
  <2>1. acc'[m] = acc[m] \/ (m = n /\ acc'[m] = inc[n][1])
    BY <1>4 DEF Base, TypeOK, Slots
  <2>2. PICK d \in Conns : d = acc'[m]
    BY <2>1, <1>7, PlacesType DEF Base
  <2>3. Unanswered(d, m) /\ d # pend[m]
    BY <2>1, <2>2, <1>7 DEF Base, Places, Looked
  <2>4. Unanswered(d, m)'
    BY <2>3, <1>5
  <2> QED
    BY <2>2, <2>3, <2>4, <1>1 DEF Unanswered, Dialled, To
<1>9. Asked'
  BY <1>1, <1>5, PlacesType DEF Base, Places, Asked
<1> QED
  BY <1>1, <1>6, <1>8, <1>9 DEF Base, Places, Sending, AnsweredOnce

\* The session takes the request that the accept loop has checked.
LEMMA PlacesOffer ==
    ASSUME Base, NEW n \in Nodes, Offer(n)
    PROVE  Places'
<1>1. UNCHANGED <<inc, ans, said, ends, call>> /\ acc[n] # None
  BY DEF Offer
<1>2. acc' = [acc EXCEPT ![n] = None] /\ pend' = [pend EXCEPT ![n] = acc[n]]
  BY DEF Offer
<1>3. \A d \in Conns, m \in Nodes : Unanswered(d, m) => Unanswered(d, m)'
  BY <1>1 DEF Unanswered, Dialled, To
<1>4. \A m \in Nodes : /\ acc'[m] \in {acc[m], None}
                       /\ pend'[m] \in {acc[m], pend[m]}
                       /\ acc'[m] # None => pend'[m] = pend[m]
  BY <1>1, <1>2 DEF Base, TypeOK, Slots
<1>5. Queued'
  <2> SUFFICES ASSUME NEW m \in Nodes, NEW i \in 1..Len(inc'[m])
               PROVE  /\ Unanswered(inc[m][i], m)' /\ inc'[m][i] \notin {acc'[m], pend'[m]}
                      /\ \A j \in 1..Len(inc'[m]) : i # j => inc'[m][i] # inc'[m][j]
    BY DEF Queued
  <2>1. PICK d \in Conns : d = inc[m][i]
    BY <1>1, PlacesType DEF Base
  <2>2. Unanswered(d, m) /\ d \notin {acc[m], pend[m], None}
    BY <2>1, <1>1, PlacesType DEF Base, Places, Queued
  <2>3. Unanswered(d, m)'
    BY <2>2, <1>3
  <2>4. Unanswered(inc[m][i], m)'
    BY <2>1, <2>3, <1>1 DEF Unanswered, Dialled, To
  <2>5. \A j \in 1..Len(inc[m]) : i # j => inc[m][i] # inc[m][j]
    BY <1>1 DEF Base, Places, Queued
  <2> QED
    BY <2>1, <2>2, <2>4, <2>5, <1>1, <1>4
<1>6. Looked'
  <2> SUFFICES ASSUME NEW m \in Nodes, acc'[m] # None
               PROVE  Unanswered(acc[m], m)' /\ acc'[m] # pend'[m]
    BY DEF Looked
  <2>1. acc'[m] = acc[m] /\ pend'[m] = pend[m]
    BY <1>4
  <2>2. Unanswered(acc[m], m) /\ acc[m] # pend[m] /\ acc[m] \in Conns
    BY <2>1, PlacesType DEF Base, Places, Looked
  <2> QED
    BY <2>1, <2>2, <1>1 DEF Unanswered, Dialled, To
<1>7. Asked'
  <2> SUFFICES ASSUME NEW m \in Nodes, pend'[m] # None
               PROVE  Unanswered(pend[m], m)'
    BY DEF Asked
  <2>1. PICK d \in Conns : d = pend'[m] /\ Unanswered(d, m)
    BY <1>4, PlacesType DEF Base, Places, Looked, Asked
  <2>2. Unanswered(d, m)'
    BY <2>1, <1>3
  <2> QED
    BY <2>1, <2>2 DEF Unanswered, Dialled, To
<1> QED
  BY <1>1, <1>5, <1>6, <1>7 DEF Base, Places, Sending, AnsweredOnce

\* The accept loop answers the first request itself.
LEMMA PlacesBusy ==
    ASSUME Base, NEW n \in Nodes, Busy(n)
    PROVE  Places'
<1> DEFINE c == Head(inc[n])
<1>1. UNCHANGED <<acc, pend, ans, ends, call>> /\ Onward
  BY DEF Busy, infoVars, Onward, Dialled
<1>2. inc[n] \in Seq(Conns) /\ inc[n] # <<>>
  BY DEF Base, TypeOK, Busy
<1>3. /\ c = inc[n][1] /\ Len(inc[n]) \in Nat \ {0} /\ c \in Conns
      /\ Len(Tail(inc[n])) = Len(inc[n]) - 1
      /\ \A i \in 1..Len(Tail(inc[n])) : Tail(inc[n])[i] = inc[n][i + 1]
  BY <1>2, Reading
<1>4. inc' = [inc EXCEPT ![n] = Tail(inc[n])] /\ said' = [said EXCEPT ![c] = @ + 1]
  BY DEF Busy
<1> HIDE DEF c
<1>5. 1 \in 1..Len(inc[n])
  BY <1>3
<1>6. said[c] = 0 /\ ans[c] = "none"
  BY <1>3, <1>5 DEF Base, Places, Queued, Unanswered
<1>7. \A m \in Nodes : acc[m] # c /\ pend[m] # c
  BY <1>3, <1>5, OnePlace
<1>8. \A m \in Nodes : inc'[m] = inc[m] \/ (inc[m] # <<>> /\ inc'[m] = Tail(inc[m]))
  BY <1>2, <1>4 DEF Base, TypeOK
<1>9. \A m \in Nodes : \A i \in 1..Len(inc'[m]) : inc'[m][i] \notin {c}
  <2> SUFFICES ASSUME NEW m \in Nodes, NEW i \in 1..Len(inc'[m]) PROVE inc'[m][i] # c
    OBVIOUS
  <2>1. CASE m # n
    <3>1. inc'[m] = inc[m]
      BY <2>1, <1>4 DEF Base, TypeOK
    <3> QED
      BY <2>1, <3>1, <1>3, <1>5, OnePlace
  <2>2. CASE m = n
    <3>1. inc'[m] = Tail(inc[n])
      BY <2>2, <1>4 DEF Base, TypeOK
    <3>2. i + 1 \in 1..Len(inc[n]) /\ i + 1 # 1 /\ inc'[m][i] = inc[n][i + 1]
      BY <3>1, <1>3
    <3>3. inc[n][1] # inc[n][i + 1]
      BY <3>2, <1>5 DEF Base, Places, Queued
    <3> QED
      BY <3>2, <3>3, <1>3
  <2> QED
    BY <2>1, <2>2
<1>10. said'[c] = 1 /\ \A d \in Conns \ {c} : said'[d] = said[d]
  BY <1>3, <1>4, <1>6 DEF Base, TypeOK
<1>11. /\ \A d \in Conns \ {c} : said'[d] = said[d] /\ ans'[d] = ans[d]
       /\ \A d \in Conns \cap {c} : said'[d] \in {0, 1} /\ (ans'[d] = "send" => said'[d] = 0)
       /\ \A m \in Nodes : acc'[m] \in {acc[m], None} \ {c}
       /\ \A m \in Nodes : pend'[m] \in {pend[m], None} \ {c}
  BY <1>1, <1>6, <1>7, <1>10
<1> QED
  BY <1>1, <1>8, <1>9, <1>11, PlacesShrink

\* The user takes the request in hand, or there is none.
LEMMA PlacesAccept ==
    ASSUME Base, NEW n \in Nodes, Accept(n)
    PROVE  Places'
<1>1. UNCHANGED <<acc, inc, said, ends, call>> /\ Onward
  BY DEF Accept, Onward, Dialled
<1>2. CASE pend[n] = None
  <2>1. UNCHANGED <<pend, ans>>
    BY <1>2 DEF Accept
  <2> QED
    BY <1>1, <2>1, PlacesStay
<1>3. CASE pend[n] # None
  <2> DEFINE c == pend[n]
  <2>1. ans' = [ans EXCEPT ![c] = "send"] /\ pend' = [pend EXCEPT ![n] = None]
    BY <1>3 DEF Accept
  <2>2. c \in Conns /\ said[c] = 0 /\ c # None
    BY <1>3, PlacesType DEF Base, Places, Asked, Unanswered
  <2>3. \A m \in Nodes : acc[m] # c /\ (pend[m] = c => m = n)
    BY <1>3, OnePlace, <2>2
  <2>4. \A m \in Nodes : \A i \in 1..Len(inc[m]) : inc[m][i] # c
    BY <1>3, OnePlace
  <2>5. \A m \in Nodes : pend'[m] \in {pend[m], None} \ {c}
    BY <2>1, <2>2, <2>3 DEF Base, TypeOK, Slots
  <2>6. \A d \in Conns \ {c} : ans'[d] = ans[d]
    BY <2>1 DEF Base, TypeOK
  <2> HIDE DEF c
  <2>7. /\ \A d \in Conns \ {c} : said'[d] = said[d] /\ ans'[d] = ans[d]
        /\ \A d \in Conns \cap {c} : said'[d] \in {0, 1} /\ (ans'[d] = "send" => said'[d] = 0)
        /\ \A m \in Nodes : acc'[m] \in {acc[m], None} \ {c}
        /\ \A m \in Nodes : inc'[m] = inc[m] \/ (inc[m] # <<>> /\ inc'[m] = Tail(inc[m]))
        /\ \A m \in Nodes : \A i \in 1..Len(inc'[m]) : inc'[m][i] \notin {c}
    BY <1>1, <2>2, <2>3, <2>4, <2>6
  <2> QED
    BY <1>1, <2>5, <2>7, PlacesShrink
<1> QED
  BY <1>2, <1>3

\* The acceptance goes out, or cannot.
LEMMA PlacesAnswered ==
    ASSUME Base, NEW c \in Conns, AcceptSent(c) \/ AcceptFails(c)
    PROVE  Places'
<1>1. UNCHANGED <<acc, inc, pend, ends, call>> /\ Onward
  BY DEF AcceptSent, AcceptFails, infoVars, Onward, Dialled
<1>2. ans[c] = "send" /\ ans' = [ans EXCEPT ![c] = "done"]
  BY DEF AcceptSent, AcceptFails
<1>3. said' = [said EXCEPT ![c] = @ + 1] \/ said' = said
  BY DEF AcceptSent, AcceptFails
<1>4. said[c] = 0
  BY <1>2 DEF Base, Places, Sending
<1>5. \A m \in Nodes : acc[m] # c /\ pend[m] # c
  BY <1>2, PlacesType DEF Base, Places, Looked, Asked, Unanswered
<1>6. \A m \in Nodes : \A i \in 1..Len(inc[m]) : inc[m][i] # c
  BY <1>2 DEF Base, Places, Queued, Unanswered
<1>7. /\ said'[c] \in {0, 1} /\ ans'[c] = "done"
      /\ \A d \in Conns \ {c} : said'[d] = said[d] /\ ans'[d] = ans[d]
  BY <1>2, <1>3, <1>4 DEF Base, TypeOK
<1>8. /\ \A d \in Conns \cap {c} : said'[d] \in {0, 1} /\ (ans'[d] = "send" => said'[d] = 0)
      /\ \A m \in Nodes : acc'[m] \in {acc[m], None} \ {c}
      /\ \A m \in Nodes : pend'[m] \in {pend[m], None} \ {c}
      /\ \A m \in Nodes : inc'[m] = inc[m] \/ (inc[m] # <<>> /\ inc'[m] = Tail(inc[m]))
      /\ \A m \in Nodes : \A i \in 1..Len(inc'[m]) : inc'[m][i] \notin {c}
  BY <1>1, <1>5, <1>6, <1>7
<1> QED
  BY <1>1, <1>7, <1>8, PlacesShrink

\* A rejection answers the request that the session has, if it has one.
LEMMA PlacesReject ==
    ASSUME Base, Onward, NEW n \in Nodes, RejectPending(n), UNCHANGED <<inc, acc, ans>>
    PROVE  Places'
<1>1. CASE pend[n] = None
  BY <1>1, PlacesStay DEF RejectPending
<1>2. CASE pend[n] # None
  <2>1. /\ said' = [said EXCEPT ![pend[n]] = @ + 1]
        /\ pend' = [pend EXCEPT ![n] = None]
    BY <1>2 DEF RejectPending
  <2>2. acc' = [acc EXCEPT ![n] = IF pend[n] = @ THEN None ELSE @]
    BY <1>2, OnePlace DEF Base, TypeOK, Slots
  <2> QED
    BY <1>2, <2>1, <2>2, PlacesAnswer
<1> QED
  BY <1>1, <1>2

\* Which action a step is.
LEMMA NextCases ==
    ASSUME NEW P, Next,
           \A c \in Conns : Check(c) \/ Caller(c) \/ Expire(c) \/ Answer(c) => P,
           \A c \in Conns : CtlLoop(c) \/ HostLoop(c) \/ Lose(c) => P,
           \A n \in Nodes : Acceptor(n) \/ Reject(n) \/ Accept(n) => P,
           \A n \in Nodes : Disconnect(n) \/ Hanging(n) => P
    PROVE  P
BY DEF Next, System, Users

LEMMA AlwaysOnward == ASSUME Base, Next PROVE Onward
<1>1. ASSUME NEW c \in Conns, Check(c) PROVE Onward
  BY <1>1 DEF Check, Onward, Dialled, Base, TypeOK
<1>2. ASSUME NEW c \in Conns, Caller(c) PROVE Onward
  BY <1>2 DEF Caller, Begin, Dial, DialFails, Timeout, Accepted, Refused, Onward, Dialled,
              Base, TypeOK
<1>3. ASSUME NEW c \in Conns, Expire(c) \/ Answer(c) \/ CtlLoop(c) \/ HostLoop(c) \/ Lose(c)
      PROVE  Onward
  BY <1>3 DEF Expire, Answer, AcceptSent, AcceptFails, CtlLoop, CtlBye, CtlRest, CtlCut,
              HostLoop, HostBye, HostRest, HostCut, LoopEnds, loopSame, Lose, Onward, Dialled
<1>4. ASSUME NEW n \in Nodes,
             Acceptor(n) \/ Reject(n) \/ Accept(n) \/ Disconnect(n) \/ Hanging(n)
      PROVE  Onward
  BY <1>4 DEF Acceptor, Busy, Take, Skip, Offer, Forbid, Reject, Accept, Disconnect, Hanging,
              DisconnectLink, DisconnectRest, Onward, Dialled
<1> QED
  BY <1>1, <1>2, <1>3, <1>4, NextCases

LEMMA EndsAreNodes ==
    ASSUME Base, NEW c \in Conns, call[c] # "none"
    PROVE  ends[c] \in Calls /\ From(c) \in Nodes /\ To(c) \in Nodes /\ From(c) # To(c)
BY ConstantsOK DEF Base, Known, From, To

LEMMA PlacesStep == ASSUME Base, Next PROVE Places'
<1>1. Onward
  BY AlwaysOnward
<1>2. ASSUME NEW c \in Conns, Check(c) \/ Begin(c) \/ Accepted(c) \/ CtlBye(c) \/ HostBye(c)
                              \/ CtlCut(c) \/ HostCut(c) \/ Lose(c)
      PROVE  Places'
  <2>1. UNCHANGED <<inc, acc, pend, ans, said>>
    BY <1>2 DEF Check, Begin, Accepted, CtlBye, HostBye, CtlCut, HostCut, Lose, LoopEnds,
                loopSame, infoVars
  <2> QED
    BY <1>1, <2>1, PlacesStay
<1>3. ASSUME NEW n \in Nodes, Disconnect(n) \/ DisconnectLink(n) PROVE Places'
  <2>1. UNCHANGED <<inc, acc, pend, ans, said>>
    BY <1>3 DEF Disconnect, DisconnectLink, infoVars
  <2> QED
    BY <1>1, <2>1, PlacesStay
<1>4. ASSUME NEW c \in Conns, DialFails(c) \/ Timeout(c) \/ Refused(c) \/ CtlRest(c)
                              \/ HostRest(c)
      PROVE  Places'
  <2>1. UNCHANGED <<inc, acc, ans, said>>
    BY <1>4 DEF DialFails, Timeout, Refused, CtlRest, HostRest, LoopEnds, loopSame
  <2>2. \E n : pend' = [pend EXCEPT ![n] = None]
    BY <1>4 DEF DialFails, Timeout, Refused, CtlRest, HostRest, Fail, Forget
  <2> QED
    BY <1>1, <2>1, <2>2, PlacesForget
<1>5. ASSUME NEW n \in Nodes, DisconnectRest(n) PROVE Places'
  <2>1. UNCHANGED <<inc, acc, ans, said>> /\ pend' = [pend EXCEPT ![n] = None]
    BY <1>5 DEF DisconnectRest, Forget
  <2> QED
    BY <1>1, <2>1, PlacesForget
<1>6. ASSUME NEW n \in Nodes, Skip(n) PROVE Places'
  <2> DEFINE gone == {}
  <2>1. /\ UNCHANGED <<acc, pend, ans, said>>
        /\ inc' = [inc EXCEPT ![n] = Tail(@)] /\ inc[n] # <<>>
    BY <1>6 DEF Skip, infoVars
  <2>2. /\ \A c \in Conns \ gone : said'[c] = said[c] /\ ans'[c] = ans[c]
        /\ \A c \in Conns \cap gone : said'[c] \in {0, 1} /\ (ans'[c] = "send" => said'[c] = 0)
        /\ \A m \in Nodes : acc'[m] \in {acc[m], None} \ gone
        /\ \A m \in Nodes : pend'[m] \in {pend[m], None} \ gone
        /\ \A m \in Nodes : inc'[m] = inc[m] \/ (inc[m] # <<>> /\ inc'[m] = Tail(inc[m]))
        /\ \A m \in Nodes : \A i \in 1..Len(inc'[m]) : inc'[m][i] \notin gone
    BY <2>1 DEF Base, TypeOK
  <2> HIDE DEF gone
  <2> QED
    BY <1>1, <2>2, PlacesShrink
<1>7. ASSUME NEW n \in Nodes, Forbid(n) PROVE Places'
  <2>1. /\ UNCHANGED <<inc, ans>> /\ acc[n] # None
        /\ said' = [said EXCEPT ![acc[n]] = @ + 1]
        /\ pend' = [pend EXCEPT ![n] = None]
        /\ acc' = [acc EXCEPT ![n] = IF acc[n] = @ THEN None ELSE @]
    BY <1>7 DEF Forbid
  <2> QED
    BY <1>1, <2>1, PlacesAnswer
<1>8. ASSUME NEW n \in Nodes, Reject(n) PROVE Places'
  BY <1>1, <1>8, PlacesReject DEF Reject
<1>9. ASSUME NEW c \in Conns, Expire(c) PROVE Places'
  <2>1. To(c) \in Nodes
    BY <1>9, EndsAreNodes DEF Expire, Base, Unsent, Dialled
  <2>2. UNCHANGED <<inc, acc, ans>>
    BY <1>9 DEF Expire
  <2>3. CASE info[To(c)] # None
    BY <1>1, <1>9, <2>1, <2>2, <2>3, PlacesReject DEF Expire
  <2>4. CASE info[To(c)] = None
    BY <1>1, <1>9, <2>2, <2>4, PlacesStay DEF Expire
  <2> QED
    BY <2>3, <2>4
<1>10. ASSUME NEW c \in Conns, Caller(c) \/ Answer(c) \/ CtlLoop(c) \/ HostLoop(c)
       PROVE  Places'
  BY <1>2, <1>4, <1>10, PlacesDial, PlacesAnswered DEF Caller, Answer, CtlLoop, HostLoop
<1>11. ASSUME NEW n \in Nodes, Acceptor(n) \/ Accept(n) \/ Hanging(n) PROVE Places'
  BY <1>3, <1>5, <1>6, <1>7, <1>11, PlacesBusy, PlacesTake, PlacesOffer, PlacesAccept
     DEF Acceptor, Hanging
<1> QED
  BY <1>2, <1>3, <1>8, <1>9, <1>10, <1>11, NextCases

-----------------------------------------------------------------------------
(* The types, and what is not there before a request is sent.              *)

LEMMA Shorter ==
    ASSUME NEW D, NEW S, NEW f \in [D -> Seq(S)], NEW d \in D, f[d] # <<>>
    PROVE  [f EXCEPT ![d] = Tail(@)] \in [D -> Seq(S)]
<1>1. Tail(f[d]) \in Seq(S)
  BY Reading
<1> QED
  BY <1>1

\* A message goes out only on a connection that is up.
LEMMA SentOpen ==
    ASSUME NEW queue, NEW c, NEW msg, NEW d, d \notin open
    PROVE  Sent(queue, c, msg)[d] = queue[d]
BY DEF Sent

\* What hanging up leaves.
LEMMA HangUpKeeps ==
    ASSUME Base, NEW n \in Nodes, HangUp(n)
    PROVE  /\ link' \in Slots /\ \A m \in Nodes : link'[m] \in {link[m], None}
           /\ open' \subseteq open
           /\ toCtl' \in [Conns -> Seq({"accept", "reject", "disconnect"})]
           /\ toHost' \in [Conns -> Seq({"request", "disconnect"})]
           /\ \A d \in Conns \ open : toCtl'[d] = toCtl[d] /\ toHost'[d] = toHost[d]
<1>1. /\ toCtl \in [Conns -> Seq({"accept", "reject", "disconnect"})]
      /\ toHost \in [Conns -> Seq({"request", "disconnect"})]
      /\ link \in Slots
  BY DEF Base, TypeOK
<1>2. /\ toCtl' \in [Conns -> Seq({"accept", "reject", "disconnect"})]
      /\ toHost' \in [Conns -> Seq({"request", "disconnect"})]
  <2>1. \A c : /\ Sent(toCtl, c, "disconnect") \in [Conns -> Seq({"accept", "reject", "disconnect"})]
               /\ Sent(toHost, c, "disconnect") \in [Conns -> Seq({"request", "disconnect"})]
    BY <1>1, SentType
  <2>2. toCtl' = toCtl \/ toCtl' = Sent(toCtl, link[n], "disconnect")
    BY DEF HangUp
  <2>3. toHost' = toHost \/ toHost' = Sent(toHost, link[n], "disconnect")
    BY DEF HangUp
  <2> QED
    BY <1>1, <2>1, <2>2, <2>3
<1>3. \A d \in Conns \ open : toCtl'[d] = toCtl[d] /\ toHost'[d] = toHost[d]
  BY SentOpen DEF HangUp
<1> QED
  BY <1>1, <1>2, <1>3 DEF HangUp, Slots

\* What a rejection leaves.
LEMMA RejectKeeps ==
    ASSUME Base, NEW n \in Nodes, RejectPending(n)
    PROVE  /\ st' \in [Nodes -> States] /\ role' \in [Nodes -> {"idle", "controller", "host"}]
           /\ pend' \in Slots /\ info' \in Slots /\ open' \subseteq open
           /\ toCtl' \in [Conns -> Seq({"accept", "reject", "disconnect"})]
           /\ said' \in [Conns -> Nat]
           /\ \A d \in Conns : ~Dialled(d) => toCtl'[d] = toCtl[d] /\ said'[d] = said[d]
<1>1. CASE pend[n] = None
  BY <1>1 DEF RejectPending, Base, TypeOK
<1>2. CASE pend[n] # None
  <2>1. Dialled(pend[n]) /\ pend[n] \in Conns
    BY <1>2, PlacesType DEF Base, Places, Asked, Unanswered
  <2>2. toCtl' = Sent(toCtl, pend[n], "reject") /\ said' = [said EXCEPT ![pend[n]] = @ + 1]
    BY <1>2 DEF RejectPending
  <2>3. toCtl' \in [Conns -> Seq({"accept", "reject", "disconnect"})]
    BY <2>2, SentType DEF Base, TypeOK
  <2>4. \A d \in Conns : ~Dialled(d) => d \notin open /\ d # pend[n]
    BY <2>1 DEF Base, Unsent
  <2>5. \A d \in Conns : ~Dialled(d) => toCtl'[d] = toCtl[d] /\ said'[d] = said[d]
    BY <2>2, <2>4, SentOpen DEF Base, TypeOK
  <2>6. said' \in [Conns -> Nat]
    BY <2>1, <2>2 DEF Base, TypeOK
  <2>7. st' \in [Nodes -> States] /\ role' \in [Nodes -> {"idle", "controller", "host"}]
    BY <1>2 DEF RejectPending, SetInfo, Base, TypeOK, States
  <2>8. pend' \in Slots /\ info' \in Slots /\ open' \subseteq open
    BY <1>2 DEF RejectPending, Base, TypeOK, Slots
  <2> QED
    BY <2>3, <2>5, <2>6, <2>7, <2>8
<1> QED
  BY <1>1, <1>2

LEMMA TypeStep == ASSUME Base, Next PROVE TypeOK'
<1> USE DEF infoVars, netVars, loopVars
<1>1. ASSUME NEW c \in Conns, Check(c) PROVE TypeOK'
  BY <1>1 DEF Check, Base, TypeOK
<1>2. ASSUME NEW c \in Conns, Begin(c) PROVE TypeOK'
  <2>1. From(c) \in Nodes
    BY <1>2, EndsAreNodes DEF Begin
  <2> QED
    BY <1>2, <2>1 DEF Begin, SetInfo, Base, TypeOK, States
<1>3. ASSUME NEW c \in Conns, Dial(c) PROVE TypeOK'
  <2>1. To(c) \in Nodes /\ inc[To(c)] \in Seq(Conns)
    BY <1>3, EndsAreNodes DEF Dial, Base, TypeOK
  <2>2. Append(inc[To(c)], c) \in Seq(Conns)
    BY <2>1, Coming
  <2>3. inc' \in [Nodes -> Seq(Conns)]
    BY <1>3, <2>1, <2>2 DEF Dial, Base, TypeOK
  <2>4. <<"request">> \in Seq({"request", "disconnect"})
    OBVIOUS
  <2>5. toHost' \in [Conns -> Seq({"request", "disconnect"})]
    BY <1>3, <2>4 DEF Dial, Base, TypeOK
  <2> QED
    BY <1>3, <2>3, <2>5 DEF Dial, Base, TypeOK
<1>4. ASSUME NEW c \in Conns, DialFails(c) \/ Timeout(c) \/ Refused(c) PROVE TypeOK'
  <2>1. From(c) \in Nodes
    BY <1>4, EndsAreNodes DEF DialFails, Timeout, Refused
  <2>2. /\ Fail(From(c), c) /\ call' = [call EXCEPT ![c] = "done"]
        /\ UNCHANGED <<popup, ends, toCtl, toHost, lost, inc, acc, armed, ans, dis, loopVars, said>>
    BY <1>4 DEF DialFails, Timeout, Refused
  <2>3. st' \in [Nodes -> States] /\ role' \in [Nodes -> {"idle", "controller", "host"}]
    BY <2>1, <2>2 DEF Fail, SetInfo, Base, TypeOK, States
  <2>4. link' \in Slots /\ pend' \in Slots /\ info' \in Slots /\ open' \subseteq open
    BY <2>1, <2>2 DEF Fail, Base, TypeOK, Slots
  <2> QED
    BY <2>2, <2>3, <2>4 DEF Base, TypeOK
<1>5. ASSUME NEW c \in Conns, Accepted(c) PROVE TypeOK'
  <2>1. From(c) \in Nodes
    BY <1>5, EndsAreNodes DEF Accepted
  <2>2. toCtl' \in [Conns -> Seq({"accept", "reject", "disconnect"})]
    BY <1>5, Shorter DEF Accepted, Base, TypeOK
  <2> QED
    BY <1>5, <2>1, <2>2 DEF Accepted, EnterSharing, Base, TypeOK, States, Slots
<1>6. ASSUME NEW n \in Nodes, Busy(n) PROVE TypeOK'
  <2>1. inc' \in [Nodes -> Seq(Conns)] /\ Head(inc[n]) \in Conns
    BY <1>6, Shorter, Reading DEF Busy, Base, TypeOK
  <2>2. toHost' \in [Conns -> Seq({"request", "disconnect"})]
    BY <1>6, <2>1, Shorter DEF Busy, Base, TypeOK
  <2>3. toCtl' \in [Conns -> Seq({"accept", "reject", "disconnect"})]
    BY <1>6, SentType DEF Busy, Base, TypeOK
  <2>4. /\ said' \in [Conns -> Nat] /\ open' \subseteq open
        /\ UNCHANGED <<infoVars, popup, ends, lost, call, acc, armed, ans, dis, loopVars>>
    BY <1>6, <2>1 DEF Busy, Base, TypeOK
  <2> QED
    BY <2>1, <2>2, <2>3, <2>4 DEF Base, TypeOK
<1>7. ASSUME NEW n \in Nodes, Take(n) PROVE TypeOK'
  <2>1. inc' \in [Nodes -> Seq(Conns)] /\ Head(inc[n]) \in Conns
    BY <1>7, Shorter, Reading DEF Take, Base, TypeOK
  <2>2. toHost' \in [Conns -> Seq({"request", "disconnect"})]
    BY <1>7, <2>1, Shorter DEF Take, Base, TypeOK
  <2> QED
    BY <1>7, <2>1, <2>2 DEF Take, Base, TypeOK, Slots
<1>8. ASSUME NEW n \in Nodes, Skip(n) PROVE TypeOK'
  <2>1. inc' \in [Nodes -> Seq(Conns)]
    BY <1>8, Shorter DEF Skip, Base, TypeOK
  <2> QED
    BY <1>8, <2>1 DEF Skip, Base, TypeOK
<1>9. ASSUME NEW n \in Nodes, Offer(n) PROVE TypeOK'
  BY <1>9, PlacesType DEF Offer, SetInfo, Base, TypeOK, States, Slots
<1>10. ASSUME NEW n \in Nodes, Forbid(n) PROVE TypeOK'
  <2>1. toCtl' \in [Conns -> Seq({"accept", "reject", "disconnect"})]
    BY <1>10, SentType DEF Forbid, Base, TypeOK
  <2> QED
    BY <1>10, <2>1 DEF Forbid, SetInfo, Base, TypeOK, States, Slots
<1>11. ASSUME NEW c \in Conns, Expire(c) PROVE TypeOK'
  <2>1. To(c) \in Nodes
    BY <1>11, EndsAreNodes DEF Expire, Base, Unsent, Dialled
  <2>2. CASE info[To(c)] # None
    <3>1. RejectPending(To(c)) /\ Emit(To(c))
      BY <1>11, <2>2 DEF Expire
    <3>2. popup' \in Slots
      BY <3>1 DEF Emit, Base, TypeOK, Slots
    <3>3. /\ armed' \subseteq Conns
          /\ UNCHANGED <<link, ends, toHost, lost, call, inc, acc, ans, dis, loopVars>>
      BY <1>11 DEF Expire, Base, TypeOK
    <3> QED
      BY <2>1, <3>1, <3>2, <3>3, RejectKeeps DEF Base, TypeOK
  <2>3. CASE info[To(c)] = None
    BY <1>11, <2>3 DEF Expire, Base, TypeOK
  <2> QED
    BY <2>2, <2>3
<1>12. ASSUME NEW n \in Nodes, Reject(n) PROVE TypeOK'
  BY <1>12, RejectKeeps DEF Reject, Base, TypeOK, Slots
<1>13. ASSUME NEW n \in Nodes, Accept(n) PROVE TypeOK'
  <2>1. CASE pend[n] = None
    BY <1>13, <2>1 DEF Accept, Base, TypeOK, Slots
  <2>2. CASE pend[n] # None
    BY <1>13, <2>2 DEF Accept, Base, TypeOK, Slots
  <2> QED
    BY <2>1, <2>2
<1>14. ASSUME NEW c \in Conns, AcceptSent(c) PROVE TypeOK'
  <2>1. To(c) \in Nodes
    BY <1>14, EndsAreNodes DEF AcceptSent, Base, Unsent, Dialled
  <2>2. toCtl' \in [Conns -> Seq({"accept", "reject", "disconnect"})]
    BY <1>14, SentType DEF AcceptSent, Base, TypeOK
  <2> QED
    BY <1>14, <2>1, <2>2 DEF AcceptSent, EnterSharing, Base, TypeOK, States, Slots
<1>15. ASSUME NEW c \in Conns, AcceptFails(c) PROVE TypeOK'
  BY <1>15 DEF AcceptFails, Base, TypeOK, Slots
<1>16. ASSUME NEW n \in Nodes, Disconnect(n) PROVE TypeOK'
  BY <1>16 DEF Disconnect, Base, TypeOK
<1>17. ASSUME NEW n \in Nodes, DisconnectLink(n) PROVE TypeOK'
  BY <1>17, HangUpKeeps DEF DisconnectLink, Base, TypeOK
<1>18. ASSUME NEW n \in Nodes, DisconnectRest(n) PROVE TypeOK'
  BY <1>18 DEF DisconnectRest, Forget, Emit, SetInfo, Base, TypeOK, States, Slots
<1>19. ASSUME NEW c \in Conns, CtlBye(c) \/ HostBye(c) PROVE TypeOK'
  <2>1. From(c) \in Nodes /\ To(c) \in Nodes
    BY <1>19, EndsAreNodes DEF CtlBye, HostBye, Bye, Base, Unsent, Dialled
  <2>2. HangUp(From(c)) \/ HangUp(To(c))
    BY <1>19 DEF CtlBye, HostBye
  <2>3. /\ link' \in Slots /\ open' \subseteq open
        /\ toCtl' \in [Conns -> Seq({"accept", "reject", "disconnect"})]
        /\ toHost' \in [Conns -> Seq({"request", "disconnect"})]
    BY <2>1, <2>2, HangUpKeeps
  <2> QED
    BY <1>19, <2>3 DEF CtlBye, HostBye, Base, TypeOK
<1>20. ASSUME NEW c \in Conns, CtlRest(c) \/ HostRest(c) \/ CtlCut(c) \/ HostCut(c)
       PROVE  TypeOK'
  <2>1. /\ ctl' \in [Conns -> {"none", "run", "rest", "done"}]
        /\ host' \in [Conns -> {"none", "run", "rest", "done"}]
    BY <1>20 DEF CtlRest, HostRest, CtlCut, HostCut, Base, TypeOK
  <2>2. \E n : LoopEnds(n)
    BY <1>20 DEF CtlRest, HostRest, CtlCut, HostCut
  <2>3. UNCHANGED <<loopSame, link>> /\ popup' \in Slots
    <3>1. PICK n : LoopEnds(n)
      BY <2>2
    <3>2. UNCHANGED <<loopSame, link>>
      BY <3>1 DEF LoopEnds
    <3>3. \E v : popup' = [popup EXCEPT ![n] = v] /\ v \in {popup[n], None}
      BY <3>1 DEF LoopEnds, Emit
    <3>4. \A m \in Nodes : popup[m] \in Conns \union {None}
      BY DEF Base, TypeOK, Slots
    <3>5. popup' \in Slots
      BY <3>3, <3>4 DEF Base, TypeOK, Slots
    <3> QED
      BY <3>2, <3>5
  <2>4. CASE UNCHANGED <<st, role, pend, info, open>>
    BY <2>1, <2>3, <2>4 DEF loopSame, Base, TypeOK
  <2>5. CASE \E n : Forget(n, {c})
    <3>1. PICK n : Forget(n, {c})
      BY <2>5
    <3>2. st' \in [Nodes -> States] /\ role' \in [Nodes -> {"idle", "controller", "host"}]
      BY <3>1 DEF Forget, SetInfo, Base, TypeOK, States
    <3>3. pend' \in Slots /\ info' \in Slots /\ open' \subseteq open
      BY <3>1 DEF Forget, Base, TypeOK, Slots
    <3> QED
      BY <2>1, <2>3, <3>2, <3>3 DEF loopSame, Base, TypeOK
  <2> QED
    BY <1>20, <2>4, <2>5 DEF CtlRest, HostRest, CtlCut, HostCut
<1>21. ASSUME NEW c \in Conns, Lose(c) PROVE TypeOK'
  <2>1. /\ toCtl' \in [Conns -> Seq({"accept", "reject", "disconnect"})]
        /\ toHost' \in [Conns -> Seq({"request", "disconnect"})]
    BY <1>21 DEF Lose, Base, TypeOK
  <2>2. lost' \in 0..MaxLost
    BY <1>21, ConstantsOK DEF Lose, Base, TypeOK
  <2> QED
    BY <1>21, <2>1, <2>2 DEF Lose, Base, TypeOK
<1>22. ASSUME NEW c \in Conns, Check(c) \/ Caller(c) \/ Expire(c) \/ Answer(c)
       PROVE  TypeOK'
  BY <1>1, <1>2, <1>3, <1>4, <1>5, <1>11, <1>14, <1>15, <1>22 DEF Caller, Answer
<1>23. ASSUME NEW c \in Conns, CtlLoop(c) \/ HostLoop(c) \/ Lose(c) PROVE TypeOK'
  BY <1>19, <1>20, <1>21, <1>23 DEF CtlLoop, HostLoop
<1>24. ASSUME NEW n \in Nodes,
              Acceptor(n) \/ Reject(n) \/ Accept(n) \/ Disconnect(n) \/ Hanging(n)
       PROVE  TypeOK'
  BY <1>6, <1>7, <1>8, <1>9, <1>10, <1>12, <1>13, <1>16, <1>17, <1>18, <1>24
     DEF Acceptor, Hanging
<1> QED
  BY <1>22, <1>23, <1>24, NextCases

LEMMA KnownStep == ASSUME Base, Next PROVE Known'
<1>1. ASSUME NEW c \in Conns, Check(c) PROVE Known'
  BY <1>1 DEF Check, Known, Base, TypeOK
<1>2. ASSUME NEW c \in Conns, Caller(c) PROVE Known'
  BY <1>2 DEF Caller, Begin, Dial, DialFails, Timeout, Accepted, Refused, Known, Base, TypeOK
<1>3. ASSUME NEW c \in Conns, Expire(c) \/ Answer(c) \/ CtlLoop(c) \/ HostLoop(c) \/ Lose(c)
      PROVE  Known'
  BY <1>3 DEF Expire, Answer, AcceptSent, AcceptFails, CtlLoop, CtlBye, CtlRest, CtlCut,
              HostLoop, HostBye, HostRest, HostCut, LoopEnds, loopSame, Lose, Known, Base
<1>4. ASSUME NEW n \in Nodes,
             Acceptor(n) \/ Reject(n) \/ Accept(n) \/ Disconnect(n) \/ Hanging(n)
      PROVE  Known'
  BY <1>4 DEF Acceptor, Busy, Take, Skip, Offer, Forbid, Reject, Accept, Disconnect, Hanging,
              DisconnectLink, DisconnectRest, Known, Base
<1> QED
  BY <1>1, <1>2, <1>3, <1>4, NextCases

\* A device goes on holding a connection of its own, or drops it, or gets another.
LEMMA HoldsKeeps ==
    ASSUME Onward, NEW f, NEW g, Holds(f), f \in Slots,
           \A n \in Nodes : \/ g[n] \in {f[n], None}
                            \/ /\ g[n] \in Conns /\ Dialled(g[n])
                               /\ n \in {From(g[n]), To(g[n])}
    PROVE  \A n \in Nodes : g[n] # None => Dialled(g[n])' /\ n \in {From(g[n])', To(g[n])'}
BY DEF Onward, Holds, From, To, Slots

LEMMA LinkStep == ASSUME Base, Next PROVE Holds(link)'
<1> DEFINE New(n) == \/ link'[n] \in {link[n], None}
                     \/ /\ link'[n] \in Conns /\ Dialled(link'[n])
                        /\ n \in {From(link'[n]), To(link'[n])}
<1>1. ASSUME NEW c \in Conns, Caller(c) PROVE \A n \in Nodes : New(n)
  BY <1>1 DEF Caller, Begin, Dial, DialFails, Timeout, Accepted, Refused, Fail, EnterSharing,
              infoVars, Dialled, Base, TypeOK, Slots
<1>2. ASSUME NEW c \in Conns, AcceptSent(c) PROVE \A n \in Nodes : New(n)
  <2>1. Dialled(c)
    BY <1>2 DEF AcceptSent, Base, Unsent
  <2> QED
    BY <1>2, <2>1 DEF AcceptSent, EnterSharing, Base, TypeOK, Slots
<1>3. ASSUME NEW c \in Conns, CtlBye(c) \/ HostBye(c) PROVE \A n \in Nodes : New(n)
  <2>1. From(c) \in Nodes /\ To(c) \in Nodes
    BY <1>3, EndsAreNodes DEF CtlBye, HostBye, Bye, Base, Unsent, Dialled
  <2> QED
    BY <1>3, <2>1, HangUpKeeps DEF CtlBye, HostBye
<1>4. ASSUME NEW c \in Conns, Check(c) \/ Expire(c) \/ AcceptFails(c) \/ CtlRest(c) \/ CtlCut(c)
                              \/ HostRest(c) \/ HostCut(c) \/ Lose(c)
      PROVE  \A n \in Nodes : New(n)
  BY <1>4 DEF Check, Expire, AcceptFails, CtlRest, CtlCut, HostRest, HostCut, LoopEnds, Lose,
              infoVars
<1>5. ASSUME NEW n \in Nodes, DisconnectLink(n) PROVE \A m \in Nodes : New(m)
  BY <1>5, HangUpKeeps DEF DisconnectLink
<1>6. ASSUME NEW n \in Nodes,
             Acceptor(n) \/ Reject(n) \/ Accept(n) \/ Disconnect(n) \/ DisconnectRest(n)
      PROVE  \A m \in Nodes : New(m)
  BY <1>6 DEF Acceptor, Busy, Take, Skip, Offer, Forbid, Reject, Accept, Disconnect,
              DisconnectRest, infoVars
<1>7. \A n \in Nodes : New(n)
  <2> HIDE DEF New
  <2> QED
    BY <1>1, <1>2, <1>3, <1>4, <1>5, <1>6, NextCases DEF Answer, CtlLoop, HostLoop, Hanging
<1>8. Onward /\ Holds(link) /\ link \in Slots
  BY AlwaysOnward DEF Base, TypeOK
<1> QED
  BY <1>7, <1>8, HoldsKeeps DEF Holds

LEMMA TaskStep == ASSUME Base, Next PROVE Holds(task)'
<1> DEFINE New(n) == \/ task'[n] \in {task[n], None}
                     \/ /\ task'[n] \in Conns /\ Dialled(task'[n])
                        /\ n \in {From(task'[n]), To(task'[n])}
<1>1. ASSUME NEW c \in Conns, Caller(c) PROVE \A n \in Nodes : New(n)
  BY <1>1 DEF Caller, Begin, Dial, DialFails, Timeout, Accepted, Refused, loopVars, Dialled,
              Base, TypeOK, Slots
<1>2. ASSUME NEW c \in Conns, AcceptSent(c) PROVE \A n \in Nodes : New(n)
  <2>1. Dialled(c)
    BY <1>2 DEF AcceptSent, Base, Unsent
  <2> QED
    BY <1>2, <2>1 DEF AcceptSent, Base, TypeOK, Slots
<1>3. ASSUME NEW c \in Conns, Check(c) \/ Expire(c) \/ AcceptFails(c) \/ CtlLoop(c)
                              \/ HostLoop(c) \/ Lose(c)
      PROVE  \A n \in Nodes : New(n)
  BY <1>3 DEF Check, Expire, AcceptFails, CtlLoop, CtlBye, CtlRest, CtlCut, HostLoop, HostBye,
              HostRest, HostCut, LoopEnds, loopSame, Lose, loopVars
<1>4. ASSUME NEW n \in Nodes,
             Acceptor(n) \/ Reject(n) \/ Accept(n) \/ Disconnect(n) \/ DisconnectLink(n)
      PROVE  \A m \in Nodes : New(m)
  BY <1>4 DEF Acceptor, Busy, Take, Skip, Offer, Forbid, Reject, Accept, Disconnect,
              DisconnectLink, loopVars
<1>5. ASSUME NEW n \in Nodes, DisconnectRest(n) PROVE \A m \in Nodes : New(m)
  BY <1>5 DEF DisconnectRest, Base, TypeOK, Slots
<1>6. \A n \in Nodes : New(n)
  <2> HIDE DEF New
  <2> QED
    BY <1>1, <1>2, <1>3, <1>4, <1>5, NextCases DEF Answer, Hanging
<1>7. Onward /\ Holds(task) /\ task \in Slots
  BY AlwaysOnward DEF Base, TypeOK
<1> QED
  BY <1>6, <1>7, HoldsKeeps DEF Holds

\* What is known of a connection whose request has not been sent.
LEMMA Fresh ==
    ASSUME Base, NEW d \in Conns, ~Dialled(d)
    PROVE  /\ said[d] = 0 /\ ans[d] = "none" /\ ctl[d] = "none" /\ host[d] = "none"
           /\ d \notin open /\ d \notin armed
           /\ toCtl[d] = <<>> /\ toHost[d] = <<>>
           /\ \A n \in Nodes : /\ d \notin {acc[n], pend[n], link[n], task[n]}
                               /\ \A i \in 1..Len(inc[n]) : inc[n][i] # d
<1>1. d # None
  BY PlacesType DEF Base
<1> QED
  BY <1>1 DEF Base, Unsent, Places, Queued, Looked, Asked, Holds, Unanswered

LEMMA UnsentStep == ASSUME Base, Next PROVE Unsent'
<1> DEFINE Still(d) ==
       /\ said'[d] = 0 /\ ans'[d] = "none" /\ ctl'[d] = "none" /\ host'[d] = "none"
       /\ d \notin open' /\ d \notin armed'
       /\ toCtl'[d] = <<>> /\ toHost'[d] = <<>>
<1> SUFFICES ASSUME NEW d \in Conns, ~Dialled(d)' PROVE Still(d)
  BY DEF Unsent
<1>0. ~Dialled(d)
  BY AlwaysOnward DEF Onward
<1> USE DEF infoVars, netVars, loopVars
<1>1. ASSUME NEW c \in Conns, Check(c) PROVE Still(d)
  BY <1>0, <1>1, Fresh DEF Check
<1>2. ASSUME NEW c \in Conns, Begin(c) PROVE Still(d)
  BY <1>0, <1>2, Fresh DEF Begin
<1>3. ASSUME NEW c \in Conns, Dial(c) PROVE Still(d)
  BY <1>0, <1>3, Fresh DEF Dial, Dialled, Base, TypeOK
<1>4. ASSUME NEW c \in Conns, DialFails(c) \/ Timeout(c) \/ Refused(c) PROVE Still(d)
  BY <1>0, <1>4, Fresh DEF DialFails, Timeout, Refused, Fail
<1>5. ASSUME NEW c \in Conns, Accepted(c) PROVE Still(d)
  BY <1>0, <1>5, Fresh DEF Accepted, EnterSharing, Dialled, Base, TypeOK
<1>6. ASSUME NEW n \in Nodes, Busy(n) PROVE Still(d)
  <2>1. Head(inc[n]) \in Conns /\ Head(inc[n]) # d
    <3>1. inc[n] \in Seq(Conns) /\ inc[n] # <<>>
      BY <1>6 DEF Busy, Base, TypeOK
    <3>2. Head(inc[n]) = inc[n][1] /\ 1 \in 1..Len(inc[n]) /\ Head(inc[n]) \in Conns
      BY <3>1, Reading
    <3> QED
      BY <1>0, <3>2, Fresh
  <2>2. toCtl'[d] = toCtl[d]
    BY <1>0, <1>6, Fresh, SentOpen DEF Busy
  <2>3. said'[d] = said[d] /\ toHost'[d] = toHost[d]
    BY <1>6, <2>1 DEF Busy, Base, TypeOK
  <2> QED
    BY <1>0, <1>6, <2>2, <2>3, Fresh DEF Busy
<1>7. ASSUME NEW n \in Nodes, Take(n) PROVE Still(d)
  <2>1. Head(inc[n]) \in Conns /\ Head(inc[n]) # d
    <3>1. inc[n] \in Seq(Conns) /\ inc[n] # <<>>
      BY <1>7 DEF Take, Base, TypeOK
    <3>2. Head(inc[n]) = inc[n][1] /\ 1 \in 1..Len(inc[n]) /\ Head(inc[n]) \in Conns
      BY <3>1, Reading
    <3> QED
      BY <1>0, <3>2, Fresh
  <2>2. toHost'[d] = toHost[d]
    BY <1>7, <2>1 DEF Take, Base, TypeOK
  <2> QED
    BY <1>0, <1>7, <2>2, Fresh DEF Take
<1>8. ASSUME NEW n \in Nodes, Skip(n) PROVE Still(d)
  BY <1>0, <1>8, Fresh DEF Skip
<1>9. ASSUME NEW n \in Nodes, Offer(n) PROVE Still(d)
  BY <1>0, <1>9, Fresh DEF Offer
<1>10. ASSUME NEW n \in Nodes, Forbid(n) PROVE Still(d)
  <2>1. toCtl'[d] = toCtl[d]
    BY <1>0, <1>10, Fresh, SentOpen DEF Forbid
  <2> QED
    BY <1>0, <1>10, <2>1, Fresh DEF Forbid, Base, TypeOK
<1>11. ASSUME NEW c \in Conns, Expire(c) PROVE Still(d)
  <2>1. To(c) \in Nodes
    BY <1>11, EndsAreNodes DEF Expire, Base, Unsent, Dialled
  <2>2. toCtl'[d] = toCtl[d] /\ said'[d] = said[d] /\ open' \subseteq open
    BY <1>0, <1>11, <2>1, RejectKeeps DEF Expire
  <2> QED
    BY <1>0, <1>11, <2>2, Fresh DEF Expire
<1>12. ASSUME NEW n \in Nodes, Reject(n) PROVE Still(d)
  <2>1. toCtl'[d] = toCtl[d] /\ said'[d] = said[d] /\ open' \subseteq open
    BY <1>0, <1>12, RejectKeeps DEF Reject
  <2> QED
    BY <1>0, <1>12, <2>1, Fresh DEF Reject
<1>13. ASSUME NEW n \in Nodes, Accept(n) PROVE Still(d)
  <2>1. ans'[d] = ans[d]
    BY <1>0, <1>13, Fresh DEF Accept, Base, TypeOK
  <2> QED
    BY <1>0, <1>13, <2>1, Fresh DEF Accept
<1>14. ASSUME NEW c \in Conns, AcceptSent(c) PROVE Still(d)
  <2>1. c # d
    BY <1>0, <1>14, Fresh DEF AcceptSent
  <2>2. toCtl'[d] = toCtl[d]
    BY <1>0, <1>14, Fresh, SentOpen DEF AcceptSent
  <2>3. said'[d] = said[d] /\ host'[d] = host[d] /\ ans'[d] = ans[d] /\ open' \subseteq open
    BY <1>14, <2>1 DEF AcceptSent, EnterSharing, Base, TypeOK
  <2> QED
    BY <1>0, <1>14, <2>2, <2>3, Fresh DEF AcceptSent
<1>15. ASSUME NEW c \in Conns, AcceptFails(c) PROVE Still(d)
  BY <1>0, <1>15, Fresh DEF AcceptFails, Base, TypeOK
<1>16. ASSUME NEW n \in Nodes, Disconnect(n) PROVE Still(d)
  BY <1>0, <1>16, Fresh DEF Disconnect
<1>17. ASSUME NEW n \in Nodes, DisconnectLink(n) PROVE Still(d)
  BY <1>0, <1>17, Fresh, HangUpKeeps DEF DisconnectLink
<1>18. ASSUME NEW n \in Nodes, DisconnectRest(n) PROVE Still(d)
  <2>1. ctl'[d] = ctl[d] /\ host'[d] = host[d] /\ open' \subseteq open
    BY <1>0, <1>18, Fresh DEF DisconnectRest, Forget, Base, TypeOK
  <2> QED
    BY <1>0, <1>18, <2>1, Fresh DEF DisconnectRest
<1>19. ASSUME NEW c \in Conns, CtlBye(c) \/ HostBye(c) PROVE Still(d)
  <2>1. From(c) \in Nodes /\ To(c) \in Nodes
    BY <1>19, EndsAreNodes DEF CtlBye, HostBye, Bye, Base, Unsent, Dialled
  <2>2. toCtl'[d] = toCtl[d] /\ toHost'[d] = toHost[d] /\ open' \subseteq open
    BY <1>0, <1>19, <2>1, Fresh, HangUpKeeps DEF CtlBye, HostBye
  <2>3. c # d
    BY <1>0, <1>19, Fresh DEF CtlBye, HostBye, Bye
  <2> QED
    BY <1>0, <1>19, <2>2, <2>3, Fresh DEF CtlBye, HostBye, Base, TypeOK
<1>20. ASSUME NEW c \in Conns, CtlRest(c) \/ HostRest(c) \/ CtlCut(c) \/ HostCut(c)
       PROVE  Still(d)
  <2>1. c # d
    BY <1>0, <1>20, Fresh DEF CtlRest, HostRest, CtlCut, HostCut, Bye, Cut
  <2>2. ctl'[d] = ctl[d] /\ host'[d] = host[d]
    BY <1>20, <2>1 DEF CtlRest, HostRest, CtlCut, HostCut, Base, TypeOK
  <2>3. UNCHANGED <<toCtl, toHost, armed, ans, said>> /\ open' \subseteq open
    BY <1>20 DEF CtlRest, HostRest, CtlCut, HostCut, Forget, LoopEnds, loopSame
  <2> QED
    BY <1>0, <2>2, <2>3, Fresh
<1>21. ASSUME NEW c \in Conns, Lose(c) PROVE Still(d)
  BY <1>0, <1>21, Fresh DEF Lose, Base, TypeOK
<1> HIDE DEF Still
<1>22. ASSUME NEW c \in Conns, Check(c) \/ Caller(c) \/ Expire(c) \/ Answer(c)
       PROVE  Still(d)
  BY <1>1, <1>2, <1>3, <1>4, <1>5, <1>11, <1>14, <1>15, <1>22 DEF Caller, Answer
<1>23. ASSUME NEW c \in Conns, CtlLoop(c) \/ HostLoop(c) \/ Lose(c) PROVE Still(d)
  BY <1>19, <1>20, <1>21, <1>23 DEF CtlLoop, HostLoop
<1>24. ASSUME NEW n \in Nodes,
              Acceptor(n) \/ Reject(n) \/ Accept(n) \/ Disconnect(n) \/ Hanging(n)
       PROVE  Still(d)
  BY <1>6, <1>7, <1>8, <1>9, <1>10, <1>12, <1>13, <1>16, <1>17, <1>18, <1>24
     DEF Acceptor, Hanging
<1> QED
  BY <1>22, <1>23, <1>24, NextCases

LEMMA BaseInit == Init => Base
<1> SUFFICES ASSUME Init PROVE Base
  OBVIOUS
<1>1. TypeOK
  BY ConstantsOK DEF Init, TypeOK, Slots, States
<1>2. \A n \in Nodes : Len(inc[n]) = 0
  BY DEF Init
<1>3. Places
  BY <1>2 DEF Init, Places, Queued, Looked, Asked, Sending, AnsweredOnce
<1> QED
  BY <1>1, <1>3 DEF Init, Base, Known, Unsent, Holds, Dialled

LEMMA BaseStep == Base /\ [Next]_vars => Base'
<1>1. ASSUME Base, Next PROVE Base'
  BY <1>1, TypeStep, KnownStep, UnsentStep, LinkStep, TaskStep, PlacesStep DEF Base
<1>2. ASSUME Base, UNCHANGED vars PROVE Base'
  BY <1>2 DEF vars, infoVars, netVars, loopVars, Base, TypeOK, Known, Unsent, Holds, Places,
              Queued, Looked, Asked, Sending, AnsweredOnce, Unanswered, Dialled, From, To
<1> QED
  BY <1>1, <1>2

LEMMA AlwaysBase == Spec => []Base
BY BaseInit, BaseStep, PTL DEF Spec

\* The state of every device's session stays within its values.
THEOREM TypeCorrect == Spec => []TypeOK
<1>1. Base => TypeOK
  BY DEF Base
<1> QED
  BY <1>1, AlwaysBase, PTL

\* A request is answered once, though accept_pending, reject_pending, the timeouts
\* of the accept loop and the loop itself all can answer: it is always in one place
\* and leaves it with its answer.
THEOREM AnswersOnce == Spec => []AnsweredOnce
<1>1. Base => AnsweredOnce
  BY DEF Base, Places
<1> QED
  BY <1>1, AlwaysBase, PTL

-----------------------------------------------------------------------------
(* Both ends of a connection that is up.                                   *)

Within(queue, msg) == \E i \in 1..Len(queue) : queue[i] = msg

\* No disconnection is told of a connection that is up.  When the controller reads
\* it, or will when it finds the acceptance, the host has read it and reads it still
\* or holds it; the controller waits for the answer, reads it or holds it.
Tied(c) ==
    /\ ~Within(toCtl[c], "disconnect") /\ ~Within(toHost[c], "disconnect")
    /\ ctl[c] # "rest" /\ host[c] # "rest"
    /\ ctl[c] = "run" \/ Within(toCtl[c], "accept") => host[c] = "run" \/ link[To(c)] = c
    /\ call[c] = "wait" \/ ctl[c] = "run" \/ link[From(c)] = c

Linked == \A c \in open : Tied(c)

LEMMA WithinTail ==
    ASSUME NEW S, NEW s \in Seq(S), s # <<>>, NEW msg
    PROVE  /\ Within(s, Head(s))
           /\ Within(Tail(s), msg) => Within(s, msg)
<1>1. 1 \in 1..Len(s) /\ Head(s) = s[1]
  BY Reading
<1>2. \A i \in 1..Len(Tail(s)) : i + 1 \in 1..Len(s) /\ Tail(s)[i] = s[i + 1]
  BY Reading
<1> QED
  BY <1>1, <1>2 DEF Within

LEMMA WithinAppend ==
    ASSUME NEW S, NEW s \in Seq(S), NEW e \in S, NEW msg, Within(Append(s, e), msg)
    PROVE  Within(s, msg) \/ msg = e
<1>1. /\ Len(s) \in Nat /\ Len(Append(s, e)) = Len(s) + 1
      /\ Append(s, e)[Len(s) + 1] = e
      /\ \A i \in 1..Len(s) : Append(s, e)[i] = s[i]
  BY Coming
<1> QED
  BY <1>1 DEF Within

\* Nothing that ties the ends of d is lost.
LEMMA TiedKeeps ==
    ASSUME Base, Linked, Onward, NEW d \in open,
           ctl'[d] = ctl[d], host'[d] = host[d],
           call[d] = "wait" => call'[d] = "wait" \/ link'[From(d)] = d,
           toCtl'[d] = toCtl[d] \/ (toCtl[d] # <<>> /\ toCtl'[d] = Tail(toCtl[d])),
           toHost'[d] = toHost[d] \/ (toHost[d] # <<>> /\ toHost'[d] = Tail(toHost[d])),
           link[From(d)] = d => link'[From(d)] = d \/ ctl[d] = "run",
           link[To(d)] = d => link'[To(d)] = d \/ host[d] = "run"
    PROVE  Tied(d)'
<1>1. Tied(d) /\ d \in Conns /\ Dialled(d)
  BY DEF Linked, Base, TypeOK, Unsent
<1>2. From(d)' = From(d) /\ To(d)' = To(d)
  BY <1>1 DEF Onward, From, To
<1>3. toCtl[d] \in Seq({"accept", "reject", "disconnect"}) /\ toHost[d] \in Seq({"request", "disconnect"})
  BY <1>1 DEF Base, TypeOK
<1>4. \A msg : Within(toCtl'[d], msg) => Within(toCtl[d], msg)
  BY <1>3, WithinTail
<1>5. \A msg : Within(toHost'[d], msg) => Within(toHost[d], msg)
  BY <1>3, WithinTail
<1>6. ~Within(toCtl[d], "disconnect")' /\ ~Within(toHost[d], "disconnect")'
  BY <1>1, <1>4, <1>5 DEF Tied, Within
<1>7. Within(toCtl[d], "accept")' => Within(toCtl[d], "accept")
  BY <1>4 DEF Within
<1>8. Within(toCtl[d], "accept")' \/ ctl[d] = "run" => host[d] = "run" \/ link[To(d)] = d
  BY <1>1, <1>7 DEF Tied
<1>9. call'[d] = "wait" \/ ctl'[d] = "run" \/ link'[From(d)] = d
  BY <1>1 DEF Tied
<1>10. ctl[d] # "rest" /\ host[d] # "rest"
  BY <1>1 DEF Tied
<1> QED
  BY <1>2, <1>6, <1>8, <1>9, <1>10 DEF Tied

\* What the session drops and what it keeps: a connection that stays up although
\* its device gives it up is read by that device's loop.
LEMMA DropKeeps ==
    ASSUME Base, Linked, NEW n \in Nodes, NEW d \in open, d \notin Loose(n), link[n] = d
    PROVE  /\ From(d) = n => ctl[d] = "run"
           /\ To(d) = n => host[d] = "run"
<1>1. Tied(d) /\ d \in Conns /\ d # None
  BY PlacesType DEF Linked, Base, TypeOK
<1>2. From(d) # To(d)
  BY <1>1, EndsAreNodes DEF Base, Unsent, Dialled
<1> QED
  BY <1>1, <1>2 DEF Loose, Tied, Base, TypeOK

\* A step that closes no more than it should ties every connection left.
LEMMA LinkedStep == ASSUME Base, Linked, Next PROVE Linked'
<1>0. Onward
  BY AlwaysOnward
<1> SUFFICES ASSUME NEW d \in open' PROVE Tied(d)'
  BY DEF Linked
<1> USE DEF infoVars, netVars, loopVars
<1>1. d \in open => /\ d \in Conns /\ Dialled(d) /\ Tied(d) /\ call[d] # "none"
                    /\ From(d) \in Nodes /\ To(d) \in Nodes /\ From(d) # To(d)
  BY EndsAreNodes DEF Base, TypeOK, Unsent, Linked, Dialled
<1>2. ASSUME NEW c \in Conns, Check(c) \/ Begin(c) PROVE Tied(d)'
  <2>1. /\ d \in open /\ call'[d] = call[d]
        /\ UNCHANGED <<toCtl, toHost, ctl, host, link>>
    BY <1>1, <1>2 DEF Check, Begin, Base, TypeOK, Dialled
  <2> QED
    BY <1>0, <2>1, TiedKeeps
<1>3. ASSUME NEW c \in Conns, Dial(c) PROVE Tied(d)'
  <2>1. CASE d = c
    <3>1. ~Dialled(c)
      BY <1>3 DEF Dial, Dialled
    <3>2. toCtl'[c] = <<>> /\ toHost'[c] = <<"request">> /\ ctl'[c] = "none" /\ host'[c] = "none"
      BY <1>3, <3>1, Fresh DEF Dial, Base, TypeOK
    <3>3. call'[c] = "wait"
      BY <1>3 DEF Dial, Base, TypeOK
    <3>4. \A msg : Within(<<>>, msg) <=> FALSE
      BY DEF Within
    <3>5. ~Within(<<"request">>, "disconnect")
      BY DEF Within
    <3> QED
      BY <2>1, <3>2, <3>3, <3>4, <3>5 DEF Tied, Within
  <2>2. CASE d # c
    <3>1. /\ d \in open /\ toHost'[d] = toHost[d] /\ call'[d] = call[d]
          /\ UNCHANGED <<toCtl, ctl, host, link>>
      BY <1>1, <1>3, <2>2 DEF Dial, Base, TypeOK
    <3> QED
      BY <1>0, <3>1, TiedKeeps
  <2> QED
    BY <2>1, <2>2
<1>4. ASSUME NEW c \in Conns, DialFails(c) \/ Timeout(c) \/ Refused(c) PROVE Tied(d)'
  <2>1. From(c) \in Nodes
    BY <1>4, EndsAreNodes DEF DialFails, Timeout, Refused
  <2>2. /\ d \in open /\ d # c /\ d \notin Loose(From(c)) /\ call'[d] = call[d]
        /\ UNCHANGED <<toCtl, toHost, ctl, host>>
        /\ link' = [link EXCEPT ![From(c)] = None]
    BY <1>1, <1>4 DEF DialFails, Timeout, Refused, Fail, Base, TypeOK
  <2>3. /\ link[From(d)] = d => link'[From(d)] = d \/ ctl[d] = "run"
        /\ link[To(d)] = d => link'[To(d)] = d \/ host[d] = "run"
    <3>1. /\ From(d) # From(c) => link'[From(d)] = link[From(d)]
          /\ To(d) # From(c) => link'[To(d)] = link[To(d)]
      BY <1>1, <2>1, <2>2 DEF Base, TypeOK, Slots
    <3> QED
      BY <1>1, <2>1, <2>2, <3>1, DropKeeps
  <2> QED
    BY <1>0, <2>2, <2>3, TiedKeeps
<1>5. ASSUME NEW c \in Conns, Accepted(c) PROVE Tied(d)'
  <2>1. From(c) \in Nodes
    BY <1>5, EndsAreNodes DEF Accepted
  <2>2. /\ d \in open /\ d \notin Loose(From(c))
        /\ UNCHANGED <<toHost, host>>
        /\ link' = [link EXCEPT ![From(c)] = c]
    BY <1>1, <1>5 DEF Accepted, EnterSharing
  <2>3. CASE d # c
    <3>1. toCtl'[d] = toCtl[d] /\ ctl'[d] = ctl[d] /\ call'[d] = call[d]
      BY <1>1, <1>5, <2>2, <2>3 DEF Accepted, Base, TypeOK
    <3>2. /\ link[From(d)] = d => link'[From(d)] = d \/ ctl[d] = "run"
          /\ link[To(d)] = d => link'[To(d)] = d \/ host[d] = "run"
      BY <1>1, <2>1, <2>2, <2>3, DropKeeps DEF Base, TypeOK, Slots
    <3> QED
      BY <1>0, <2>2, <3>1, <3>2, TiedKeeps
  <2>4. CASE d = c
    <3>1. /\ toCtl[c] \in Seq({"accept", "reject", "disconnect"}) /\ toCtl[c] # <<>>
          /\ Head(toCtl[c]) = "accept" /\ toCtl'[c] = Tail(toCtl[c])
          /\ ctl'[c] = "run"
      BY <1>5 DEF Accepted, Base, TypeOK
    <3>2. Within(toCtl[c], "accept") /\ ~Within(toCtl'[c], "disconnect")
      BY <1>1, <2>2, <2>4, <3>1, WithinTail DEF Tied
    <3>3. host[c] = "run" \/ link[To(c)] = c
      BY <1>1, <2>2, <2>4, <3>2 DEF Tied
    <3>4. link'[To(c)] = link[To(c)]
      BY <1>1, <2>2, <2>4 DEF Base, TypeOK, Slots
    <3>5. To(c)' = To(c)
      BY <1>5 DEF Accepted, To
    <3>6. ~Within(toHost[c], "disconnect") /\ host[c] # "rest"
      BY <1>1, <2>2, <2>4 DEF Tied
    <3> QED
      BY <2>2, <2>4, <3>1, <3>2, <3>3, <3>4, <3>5, <3>6 DEF Tied, Within
  <2> QED
    BY <2>3, <2>4
<1>6. ASSUME NEW n \in Nodes, Busy(n) PROVE Tied(d)'
  <2>1. d \in open /\ d # Head(inc[n]) /\ Head(inc[n]) \in Conns
    BY <1>6, Reading DEF Busy, Base, TypeOK
  <2>2. /\ toCtl'[d] = toCtl[d] /\ toHost'[d] = toHost[d]
        /\ UNCHANGED <<call, ctl, host, link>>
    BY <1>1, <1>6, <2>1 DEF Busy, Sent, Base, TypeOK
  <2> QED
    BY <1>0, <2>1, <2>2, TiedKeeps
<1>7. ASSUME NEW n \in Nodes, Take(n) PROVE Tied(d)'
  <2>1. /\ toHost'[d] = toHost[d] \/ (toHost[d] # <<>> /\ toHost'[d] = Tail(toHost[d]))
        /\ UNCHANGED <<toCtl, call, ctl, host, link>>
    BY <1>7 DEF Take, Base, TypeOK
  <2>2. d \in open
    BY <1>7 DEF Take
  <2> QED
    BY <1>0, <2>1, <2>2, TiedKeeps
<1>8. ASSUME NEW n \in Nodes, Skip(n) \/ Offer(n) \/ Accept(n) \/ Disconnect(n) PROVE Tied(d)'
  <2>1. d \in open /\ UNCHANGED <<toCtl, toHost, call, ctl, host, link>>
    BY <1>8 DEF Skip, Offer, Accept, Disconnect
  <2> QED
    BY <1>0, <2>1, TiedKeeps
<1>9. ASSUME NEW n \in Nodes, Forbid(n) PROVE Tied(d)'
  <2>1. d \in open /\ toCtl'[d] = toCtl[d] /\ UNCHANGED <<toHost, call, ctl, host, link>>
    BY <1>1, <1>9 DEF Forbid, Sent, Base, TypeOK
  <2> QED
    BY <1>0, <2>1, TiedKeeps
<1>10. ASSUME NEW n \in Nodes, RejectPending(n), UNCHANGED <<toHost, call, ctl, host, link>>
       PROVE  Tied(d)'
  <2>1. d \in open /\ toCtl'[d] = toCtl[d]
    BY <1>1, <1>10 DEF RejectPending, Sent, Base, TypeOK
  <2> QED
    BY <1>0, <1>10, <2>1, TiedKeeps
<1>11. ASSUME NEW n \in Nodes, Reject(n) PROVE Tied(d)'
  BY <1>10, <1>11 DEF Reject
<1>12. ASSUME NEW c \in Conns, Expire(c) PROVE Tied(d)'
  <2>1. To(c) \in Nodes /\ UNCHANGED <<toHost, call, ctl, host, link>>
    BY <1>12, EndsAreNodes DEF Expire, Base, Unsent, Dialled
  <2>2. CASE info[To(c)] # None
    BY <1>10, <1>12, <2>1, <2>2 DEF Expire
  <2>3. CASE info[To(c)] = None
    BY <1>0, <1>12, <2>1, <2>3, TiedKeeps DEF Expire
  <2> QED
    BY <2>2, <2>3
<1>13. ASSUME NEW c \in Conns, AcceptSent(c) PROVE Tied(d)'
  <2>1. To(c) \in Nodes /\ c \in open
    BY <1>13, EndsAreNodes DEF AcceptSent, Base, Unsent, Dialled
  <2>2. /\ d \in open /\ d \notin Loose(To(c))
        /\ UNCHANGED <<toHost, ctl, call, ends>>
        /\ link' = [link EXCEPT ![To(c)] = c]
    BY <1>13 DEF AcceptSent, EnterSharing
  <2>3. CASE d # c
    <3>1. toCtl'[d] = toCtl[d] /\ host'[d] = host[d]
      BY <1>1, <1>13, <2>2, <2>3 DEF AcceptSent, Sent, Base, TypeOK
    <3>2. /\ link[From(d)] = d => link'[From(d)] = d \/ ctl[d] = "run"
          /\ link[To(d)] = d => link'[To(d)] = d \/ host[d] = "run"
      BY <1>1, <2>1, <2>2, <2>3, DropKeeps DEF Base, TypeOK, Slots
    <3> QED
      BY <1>0, <2>2, <3>1, <3>2, TiedKeeps
  <2>4. CASE d = c
    <3>1. /\ toCtl[c] \in Seq({"accept", "reject", "disconnect"})
          /\ toCtl'[c] = Append(toCtl[c], "accept") /\ host'[c] = "run"
      BY <1>13, <2>1 DEF AcceptSent, Sent, Base, TypeOK
    <3>2. ~Within(toCtl'[c], "disconnect")
      BY <1>1, <2>1, <2>4, <3>1, WithinAppend DEF Tied
    <3>3. link'[From(c)] = link[From(c)] /\ From(c)' = From(c)
      BY <1>1, <2>2, <2>4 DEF Base, TypeOK, Slots, From
    <3>4. Tied(c)
      BY <1>1, <2>1, <2>4
    <3> QED
      BY <2>2, <2>4, <3>1, <3>2, <3>3, <3>4 DEF Tied, Within
  <2> QED
    BY <2>3, <2>4
<1>14. ASSUME NEW c \in Conns, AcceptFails(c) PROVE Tied(d)'
  <2>1. d \in open /\ UNCHANGED <<toCtl, toHost, call, ctl, host, link>>
    BY <1>14 DEF AcceptFails
  <2> QED
    BY <1>0, <2>1, TiedKeeps
<1>15. ASSUME NEW n \in Nodes, HangUp(n), UNCHANGED call, d \in open => ctl'[d] = ctl[d] /\ host'[d] = host[d]
       PROVE  Tied(d)'
  <2>1. d \in open /\ (link[n] # None => d # link[n])
    BY <1>15 DEF HangUp
  <2>2. toCtl'[d] = toCtl[d] /\ toHost'[d] = toHost[d]
    BY <1>1, <1>15, <2>1 DEF HangUp, Sent, Base, TypeOK
  <2>3. /\ link[From(d)] = d => link'[From(d)] = d
        /\ link[To(d)] = d => link'[To(d)] = d
    BY <1>1, <1>15, <2>1 DEF HangUp, Base, TypeOK, Slots
  <2> QED
    BY <1>0, <1>15, <2>1, <2>2, <2>3, TiedKeeps
<1>16. ASSUME NEW n \in Nodes, DisconnectLink(n) PROVE Tied(d)'
  BY <1>15, <1>16 DEF DisconnectLink
<1>17. ASSUME NEW n \in Nodes, DisconnectRest(n) PROVE Tied(d)'
  <2>1. d \in open /\ UNCHANGED <<toCtl, toHost, call, link, ends>>
    BY <1>17 DEF DisconnectRest, Forget
  <2>2. CASE d # task[n]
    <3>1. ctl'[d] = ctl[d] /\ host'[d] = host[d]
      BY <1>1, <1>17, <2>1, <2>2 DEF DisconnectRest, Base, TypeOK
    <3> QED
      BY <1>0, <2>1, <3>1, TiedKeeps
  <2>3. CASE d = task[n]
    <3>1. d = link[n] /\ d # None
      BY <1>1, <1>17, <2>1, <2>3, PlacesType DEF DisconnectRest, Forget, Base
    <3>2. n \in {From(d), To(d)}
      BY <2>3, <3>1 DEF Base, Holds
    <3>3. CASE n = From(d)
      <4>1. ctl'[d] = "done" /\ host'[d] = host[d]
        BY <1>1, <1>17, <2>1, <2>3, <3>1, <3>3 DEF DisconnectRest, Base, TypeOK
      <4> QED
        BY <1>1, <2>1, <3>1, <3>3, <4>1 DEF Tied, Within, From, To
    <3>4. CASE n = To(d)
      <4>1. host'[d] = "done" /\ ctl'[d] = ctl[d]
        BY <1>1, <1>17, <2>1, <2>3, <3>1, <3>4 DEF DisconnectRest, Base, TypeOK
      <4> QED
        BY <1>1, <2>1, <3>1, <3>4, <4>1 DEF Tied, Within, From, To
    <3> QED
      BY <3>2, <3>3, <3>4
  <2> QED
    BY <2>2, <2>3
<1>18. ASSUME NEW c \in Conns, CtlBye(c) \/ HostBye(c) PROVE Tied(d)'
  <2>1. From(c) \in Nodes /\ To(c) \in Nodes
    BY <1>18, EndsAreNodes DEF CtlBye, HostBye, Bye, Base, Unsent, Dialled
  <2>2. CASE c \in open
    <3>1. Tied(c)
      BY <2>2 DEF Linked
    <3>2. /\ toCtl[c] \in Seq({"accept", "reject", "disconnect"})
          /\ toHost[c] \in Seq({"request", "disconnect"})
      BY DEF Base, TypeOK
    <3>3. Within(toCtl[c], "disconnect") \/ Within(toHost[c], "disconnect")
      BY <1>18, <3>2, WithinTail DEF CtlBye, HostBye, Bye
    <3> QED
      BY <3>1, <3>3 DEF Tied
  <2>3. CASE c \notin open
    <3>1. d \in open => ctl'[d] = ctl[d] /\ host'[d] = host[d]
      BY <1>1, <1>18, <2>3 DEF CtlBye, HostBye, Base, TypeOK
    <3> QED
      BY <1>15, <1>18, <2>1, <3>1 DEF CtlBye, HostBye
  <2> QED
    BY <2>2, <2>3
<1>19. ASSUME NEW c \in Conns, CtlRest(c) \/ HostRest(c) \/ CtlCut(c) \/ HostCut(c)
       PROVE  Tied(d)'
  <2>1. d \in open /\ d # c /\ UNCHANGED <<toCtl, toHost, call, link>>
    BY <1>19 DEF CtlRest, HostRest, CtlCut, HostCut, Cut, Forget, LoopEnds, loopSame
  <2>2. ctl'[d] = ctl[d] /\ host'[d] = host[d]
    BY <1>1, <1>19, <2>1 DEF CtlRest, HostRest, CtlCut, HostCut, Base, TypeOK
  <2> QED
    BY <1>0, <2>1, <2>2, TiedKeeps
<1>20. ASSUME NEW c \in Conns, Lose(c) PROVE Tied(d)'
  <2>1. /\ d \in open /\ toCtl'[d] = toCtl[d] /\ toHost'[d] = toHost[d]
        /\ UNCHANGED <<call, ctl, host, link>>
    BY <1>1, <1>20 DEF Lose, Base, TypeOK
  <2> QED
    BY <1>0, <2>1, TiedKeeps
<1>21. ASSUME NEW c \in Conns, Check(c) \/ Caller(c) \/ Expire(c) \/ Answer(c)
       PROVE  Tied(d)'
  BY <1>2, <1>3, <1>4, <1>5, <1>12, <1>13, <1>14, <1>21 DEF Caller, Answer
<1>22. ASSUME NEW c \in Conns, CtlLoop(c) \/ HostLoop(c) \/ Lose(c) PROVE Tied(d)'
  BY <1>18, <1>19, <1>20, <1>22 DEF CtlLoop, HostLoop
<1>23. ASSUME NEW n \in Nodes,
              Acceptor(n) \/ Reject(n) \/ Accept(n) \/ Disconnect(n) \/ Hanging(n)
       PROVE  Tied(d)'
  BY <1>6, <1>7, <1>8, <1>9, <1>11, <1>16, <1>17, <1>23 DEF Acceptor, Hanging
<1> QED
  BY <1>21, <1>22, <1>23, NextCases

\* No half-open session: a message that disconnects is sent only with the closing
\* of its connection, and a device drops a connection only while a loop reads it or
\* closes it with that.
THEOREM EndsAlwaysAgree == Spec => []EndsAgree
<1>1. Init => Linked
  BY DEF Init, Linked
<1>2. Base /\ Linked /\ [Next]_vars => Linked'
  <2>1. ASSUME Linked, UNCHANGED vars PROVE Linked'
    BY <2>1 DEF Linked, Tied, Within, From, To, vars, infoVars, netVars, loopVars
  <2> QED
    BY <2>1, LinkedStep
<1>3. Linked => EndsAgree
  BY DEF Linked, Tied, EndsAgree
<1> QED
  BY <1>1, <1>2, <1>3, AlwaysBase, PTL DEF Spec

-----------------------------------------------------------------------------
(* Who controls a device, where nobody calls who is called.                *)

Apart == \A a, b \in Calls : a[1] # b[2]

\* A host's loop runs for the session that shows as sharing and is the loop that a
\* disconnection aborts; while it runs on a connection that is up, this is the
\* current one.
Hosting ==
    \A c \in Conns : host[c] \in {"run", "rest"} =>
        /\ st[To(c)] = "sharing" /\ task[To(c)] = c
        /\ host[c] = "run" /\ c \in open => link[To(c)] = c

\* The session waits for nobody but the one it asks or has just accepted.
Waiting ==
    /\ \A c \in open : ans[c] = "send" =>
          /\ st[To(c)] = "waiting" /\ pend[To(c)] = None
          /\ \A d \in open : ans[d] = "send" /\ To(d) = To(c) => c = d
    /\ \A n \in Nodes : pend[n] # None => st[n] = "waiting"
    /\ \A n \in Nodes : acc[n] # None => st[n] \notin Active

OneController == Hosting /\ Waiting

\* A device that is called: its sessions are those of a host.
Called == {To(c) : c \in {d \in Conns : Dialled(d)}}

LEMMA CalledApart ==
    ASSUME Apart, Base
    PROVE  /\ \A c \in Conns : call[c] # "none" => From(c) \notin Called
           /\ \A c \in Conns : Dialled(c) => To(c) \in Called
           /\ \A n \in Nodes : acc[n] # None \/ pend[n] # None => n \in Called
           /\ \A c \in Conns : (host[c] # "none" \/ ans[c] # "none" \/ c \in open) => Dialled(c)
<1>1. \A c \in Conns : Dialled(c) => ends[c] \in Calls
  BY EndsAreNodes DEF Dialled
<1>2. \A c \in Conns : call[c] # "none" => From(c) \notin Called
  BY <1>1, EndsAreNodes DEF Called, Apart, From, To
<1>3. \A n \in Nodes : acc[n] # None \/ pend[n] # None => n \in Called
  BY PlacesType DEF Base, Places, Looked, Asked, Unanswered, Called
<1> QED
  BY <1>2, <1>3 DEF Called, Base, Unsent

\* A step that leaves the sessions of those who are called, or hangs up for one.
LEMMA OneControllerKeeps ==
    ASSUME Apart, Base, OneController, Onward,
           \A n \in Called : st'[n] = st[n] /\ task'[n] = task[n],
           \A n \in Called : link'[n] = link[n] \/ (link[n] # None /\ link[n] \notin open'),
           \A n \in Nodes : pend'[n] \in {pend[n], None} /\ acc'[n] \in {acc[n], None},
           \A c \in open' : c \in open \/ (ans'[c] = "none" /\ host'[c] = "none"),
           \A c \in Conns : host[c] \in {"none", "done"} => host'[c] = host[c],
           \A c \in Conns : host[c] = "rest" => host'[c] # "run",
           \A c \in Conns : ans'[c] = "send" => ans[c] = "send"
    PROVE  OneController'
<1>1. \A c \in Conns : Dialled(c) => To(c)' = To(c) /\ To(c) \in Called /\ To(c) \in Nodes
  BY CalledApart, EndsAreNodes DEF Onward, To, Dialled
<1>2. open \subseteq Conns /\ \A c \in Conns : host[c] \in {"none", "run", "rest", "done"}
  BY DEF Base, TypeOK
<1>3. Hosting'
  <2> SUFFICES ASSUME NEW c \in Conns, host'[c] \in {"run", "rest"}
               PROVE  /\ st'[To(c)'] = "sharing" /\ task'[To(c)'] = c
                      /\ host'[c] = "run" /\ c \in open' => link'[To(c)'] = c
    BY DEF Hosting
  <2>1. host[c] \in {"run", "rest"} /\ (host'[c] = "run" => host[c] = "run")
    BY <1>2
  <2>2. Dialled(c) /\ st[To(c)] = "sharing" /\ task[To(c)] = c
    BY <2>1, CalledApart DEF OneController, Hosting
  <2>3. ASSUME host'[c] = "run", c \in open' PROVE link'[To(c)] = c
    <3>1. link[To(c)] = c
      BY <2>1, <2>3 DEF OneController, Hosting
    <3> QED
      BY <1>1, <2>2, <2>3, <3>1
  <2> QED
    BY <1>1, <2>2, <2>3
<1>4. ASSUME NEW c \in open', ans'[c] = "send"
      PROVE  /\ c \in open /\ ans[c] = "send" /\ To(c)' = To(c)
             /\ To(c) \in Called /\ To(c) \in Nodes
  BY <1>1, <1>2, <1>4, CalledApart
<1>5. Waiting'
  <2>1. \A c \in open' : ans'[c] = "send" =>
          /\ st'[To(c)'] = "waiting" /\ pend'[To(c)'] = None
          /\ \A d \in open' : ans'[d] = "send" /\ To(d)' = To(c)' => c = d
    BY <1>4 DEF OneController, Waiting
  <2>2. \A n \in Nodes : pend'[n] # None => st'[n] = "waiting"
    BY CalledApart DEF OneController, Waiting
  <2>3. \A n \in Nodes : acc'[n] # None => st'[n] \notin Active
    BY CalledApart DEF OneController, Waiting
  <2> QED
    BY <2>1, <2>2, <2>3 DEF Waiting
<1> QED
  BY <1>3, <1>5 DEF OneController

\* A step after which nobody controls n nor is let in.
LEMMA NobodyKeeps ==
    ASSUME Apart, Base, OneController, Onward, NEW n \in Nodes, open' \subseteq open,
           \A m \in Called \ {n} : st'[m] = st[m] /\ task'[m] = task[m] /\ link'[m] = link[m],
           \A m \in Nodes \ {n} : pend'[m] = pend[m] /\ acc'[m] = acc[m],
           \A c \in Conns : Dialled(c) /\ To(c) = n =>
               host'[c] \notin {"run", "rest"} /\ (c \in open' => ans'[c] # "send"),
           \A c \in Conns : To(c) # n \/ ~Dialled(c) => host'[c] = host[c] /\ ans'[c] = ans[c],
           pend'[n] # None => st'[n] = "waiting",
           acc'[n] # None => st'[n] \notin Active
    PROVE  OneController'
<1>1. \A c \in Conns : Dialled(c) => To(c)' = To(c) /\ To(c) \in Called /\ To(c) \in Nodes
  BY CalledApart, EndsAreNodes DEF Onward, To, Dialled
<1>2. open \subseteq Conns
  BY DEF Base, TypeOK
<1>3. ASSUME NEW c \in Conns, host'[c] \in {"run", "rest"} \/ ans'[c] = "send"
      PROVE  Dialled(c)
  BY <1>3, CalledApart
<1>4. Hosting'
  <2> SUFFICES ASSUME NEW c \in Conns, host'[c] \in {"run", "rest"}
               PROVE  /\ st'[To(c)'] = "sharing" /\ task'[To(c)'] = c
                      /\ host'[c] = "run" /\ c \in open' => link'[To(c)'] = c
    BY DEF Hosting
  <2>1. Dialled(c) /\ To(c) # n /\ host'[c] = host[c]
    BY <1>3
  <2> QED
    BY <1>1, <2>1 DEF OneController, Hosting
<1>5. Waiting'
  <2>1. ASSUME NEW c \in open', ans'[c] = "send"
        PROVE  c \in open /\ c \in Conns /\ ans[c] = "send" /\ To(c) # n /\ To(c)' = To(c)
               /\ To(c) \in Called /\ To(c) \in Nodes
    BY <1>1, <1>2, <1>3, <2>1
  <2>2. \A c \in open' : ans'[c] = "send" =>
          /\ st'[To(c)'] = "waiting" /\ pend'[To(c)'] = None
          /\ \A d \in open' : ans'[d] = "send" /\ To(d)' = To(c)' => c = d
    BY <2>1 DEF OneController, Waiting
  <2>3. \A m \in Nodes : pend'[m] # None => st'[m] = "waiting"
    BY CalledApart DEF OneController, Waiting
  <2>4. \A m \in Nodes : acc'[m] # None => st'[m] \notin Active
    BY CalledApart DEF OneController, Waiting
  <2> QED
    BY <2>2, <2>3, <2>4 DEF Waiting
<1> QED
  BY <1>4, <1>5 DEF OneController

\* Who does not share is not controlled; who does not wait lets nobody in.
LEMMA Alone ==
    ASSUME OneController, NEW n
    PROVE  /\ st[n] # "sharing" => \A c \in Conns : To(c) = n => host[c] \notin {"run", "rest"}
           /\ st[n] # "waiting" \/ pend[n] # None =>
                 \A c \in open : To(c) = n => ans[c] # "send"
BY DEF OneController, Hosting, Waiting

LEMMA RejectNobody ==
    ASSUME Apart, Base, OneController, Onward, NEW n \in Nodes, RejectPending(n),
           UNCHANGED <<task, link, acc, ans, host>>
    PROVE  OneController'
<1>1. CASE pend[n] = None
  <2>1. UNCHANGED <<st, pend, open>>
    BY <1>1 DEF RejectPending
  <2> QED
    BY <1>1, <2>1, OneControllerKeeps
<1>2. CASE pend[n] # None
  <2>1. st[n] = "waiting"
    BY <1>2 DEF OneController, Waiting
  <2>2. /\ st' = [st EXCEPT ![n] = "disconnected"] /\ pend' = [pend EXCEPT ![n] = None]
        /\ open' \subseteq open
    BY <1>2 DEF RejectPending, SetInfo
  <2>3. /\ \A m \in Called \ {n} : st'[m] = st[m]
        /\ \A m \in Nodes \ {n} : pend'[m] = pend[m]
        /\ pend'[n] = None /\ st'[n] \notin Active
    <3>1. Called \subseteq Nodes
      BY EndsAreNodes DEF Called, Dialled
    <3> QED
      BY <2>2, <3>1 DEF Base, TypeOK, Slots, Active
  <2>4. open \subseteq Conns
    BY DEF Base, TypeOK
  <2>5. /\ \A c \in Conns : To(c) = n => host'[c] \notin {"run", "rest"}
        /\ \A c \in open : To(c) = n => ans'[c] # "send"
    BY <1>2, <2>1, Alone
  <2> QED
    BY <2>2, <2>3, <2>4, <2>5, NobodyKeeps
<1> QED
  BY <1>1, <1>2

\* No disconnection being half way is needed for the last step of one only.
LEMMA OneControllerStep ==
    ASSUME Apart, Base, OneController, Undisturbed, Next PROVE OneController'
<1>0. Onward
  BY AlwaysOnward
<1> USE DEF infoVars, netVars, loopVars
<1>1. Called \subseteq Nodes /\ \A c \in Conns : Dialled(c) <=> call[c] \notin {"none", "checked", "dial"}
  BY EndsAreNodes DEF Called, Dialled
<1>2. ASSUME NEW c \in Conns, Check(c) \/ Begin(c) PROVE OneController'
  <2>1. UNCHANGED <<task, link, pend, acc, open, ans, host>>
    BY <1>2 DEF Check, Begin
  <2>2. \A n \in Called : st'[n] = st[n]
    <3>1. CASE Check(c)
      BY <3>1 DEF Check
    <3>2. CASE Begin(c)
      <4>1. From(c) \notin Called /\ st' = [st EXCEPT ![From(c)] = "connecting"]
        BY <3>2, CalledApart DEF Begin, SetInfo
      <4> QED
        BY <1>1, <4>1 DEF Base, TypeOK
    <3> QED
      BY <1>2, <3>1, <3>2
  <2> QED
    BY <1>0, <2>1, <2>2, OneControllerKeeps
<1>3. ASSUME NEW c \in Conns, Dial(c) PROVE OneController'
  <2>1. UNCHANGED <<st, task, link, pend, acc, ans, host>> /\ open' = open \union {c}
    BY <1>3 DEF Dial
  <2>2. ans[c] = "none" /\ host[c] = "none"
    BY <1>3, Fresh DEF Dial, Dialled
  <2> QED
    BY <1>0, <2>1, <2>2, OneControllerKeeps
<1>4. ASSUME NEW c \in Conns, DialFails(c) \/ Timeout(c) \/ Refused(c) PROVE OneController'
  <2>1. UNCHANGED <<task, acc, ans, host>> /\ open' \subseteq open /\ From(c) \in Nodes
        /\ From(c) \notin Called
    BY <1>4, CalledApart, EndsAreNodes DEF DialFails, Timeout, Refused, Fail
  <2>2. /\ \E s : st' = [st EXCEPT ![From(c)] = s]
        /\ link' = [link EXCEPT ![From(c)] = None] /\ pend' = [pend EXCEPT ![From(c)] = None]
    BY <1>4 DEF DialFails, Timeout, Refused, Fail, SetInfo
  <2>3. /\ \A n \in Called : st'[n] = st[n] /\ link'[n] = link[n]
        /\ \A n \in Nodes : pend'[n] \in {pend[n], None}
    BY <1>1, <2>1, <2>2 DEF Base, TypeOK, Slots
  <2> QED
    BY <1>0, <2>1, <2>3, OneControllerKeeps
<1>5. ASSUME NEW c \in Conns, Accepted(c) PROVE OneController'
  <2>1. UNCHANGED <<pend, acc, ans, host>> /\ open' \subseteq open /\ From(c) \in Nodes
        /\ From(c) \notin Called
    BY <1>5, CalledApart, EndsAreNodes DEF Accepted, EnterSharing
  <2>2. \A n \in Called : st'[n] = st[n] /\ link'[n] = link[n] /\ task'[n] = task[n]
    BY <1>1, <1>5, <2>1 DEF Accepted, EnterSharing, Base, TypeOK, Slots
  <2> QED
    BY <1>0, <2>1, <2>2, OneControllerKeeps
<1>6. ASSUME NEW n \in Nodes, Busy(n) \/ Skip(n) \/ Disconnect(n) PROVE OneController'
  <2>1. UNCHANGED <<st, task, link, pend, acc, ans, host>> /\ open' \subseteq open
    BY <1>6 DEF Busy, Skip, Disconnect
  <2> QED
    BY <1>0, <2>1, OneControllerKeeps
<1>7. ASSUME NEW n \in Nodes, Take(n) PROVE OneController'
  <2>1. UNCHANGED <<st, task, link, pend, ans, host, open, ends>>
        /\ \A m \in Nodes : acc'[m] = acc[m] \/ m = n
    BY <1>7 DEF Take, Base, TypeOK, Slots
  <2>2. st[n] \notin Active
    BY <1>7 DEF Take
  <2> QED
    BY <2>1, <2>2 DEF OneController, Hosting, Waiting, To
<1>8. ASSUME NEW n \in Nodes, Offer(n) \/ Forbid(n) PROVE OneController'
  <2>1. st[n] \notin Active
    BY <1>8 DEF Offer, Forbid, OneController, Waiting
  <2>2. UNCHANGED <<task, link, ans, host>> /\ open' \subseteq open
    BY <1>8 DEF Offer, Forbid
  <2>3. \A m \in Called \ {n} : st'[m] = st[m]
    BY <1>1, <1>8 DEF Offer, Forbid, SetInfo, Base, TypeOK
  <2>4. \A m \in Nodes \ {n} : pend'[m] = pend[m] /\ acc'[m] = acc[m]
    BY <1>8 DEF Offer, Forbid, Base, TypeOK, Slots
  <2>5. acc'[n] = None /\ (pend'[n] # None => st'[n] = "waiting")
    BY <1>8 DEF Offer, Forbid, SetInfo, Base, TypeOK, Slots
  <2>6. /\ \A c \in Conns : To(c) = n => host'[c] \notin {"run", "rest"}
        /\ \A c \in open : To(c) = n => ans'[c] # "send"
    BY <2>1, <2>2, Alone DEF Active
  <2> QED
    BY <1>0, <2>2, <2>3, <2>4, <2>5, <2>6, NobodyKeeps
<1>9. ASSUME NEW n \in Nodes, Reject(n) PROVE OneController'
  BY <1>0, <1>9, RejectNobody DEF Reject
<1>10. ASSUME NEW c \in Conns, Expire(c) PROVE OneController'
  <2>1. To(c) \in Nodes /\ UNCHANGED <<task, link, acc, ans, host>>
    BY <1>10, EndsAreNodes DEF Expire, Base, Unsent, Dialled
  <2>2. CASE info[To(c)] # None
    BY <1>0, <1>10, <2>1, <2>2, RejectNobody DEF Expire
  <2>3. CASE info[To(c)] = None
    <3>1. UNCHANGED <<st, pend, open>>
      BY <1>10, <2>3 DEF Expire
    <3> QED
      BY <1>0, <2>1, <3>1, OneControllerKeeps
  <2> QED
    BY <2>2, <2>3
<1>11. ASSUME NEW n \in Nodes, Accept(n) PROVE OneController'
  <2>1. UNCHANGED <<st, task, link, acc, host, open, ends>>
    BY <1>11 DEF Accept
  <2>2. CASE pend[n] = None
    <3>1. UNCHANGED <<pend, ans>>
      BY <1>11, <2>2 DEF Accept
    <3> QED
      BY <1>0, <2>1, <3>1, OneControllerKeeps
  <2>3. CASE pend[n] # None
    <3>1. /\ ans' = [ans EXCEPT ![pend[n]] = "send"] /\ pend' = [pend EXCEPT ![n] = None]
          /\ To(pend[n]) = n
      BY <1>11, <2>3 DEF Accept, Base, Places, Asked, Unanswered
    <3>2. st[n] = "waiting" /\ \A c \in open : To(c) = n => ans[c] # "send"
      BY <2>3, Alone DEF OneController, Waiting
    <3>3. \A m \in Nodes : pend'[m] \in {pend[m], None} /\ pend'[n] = None
      BY <3>1 DEF Base, TypeOK, Slots
    <3>4. \A c \in open : ans'[c] = "send" => c = pend[n] \/ ans[c] = "send"
      BY <3>1 DEF Base, TypeOK
    <3>5. \A c \in open : ans'[c] = "send" =>
            /\ st[To(c)] = "waiting" /\ pend'[To(c)] = None
            /\ \A d \in open : ans'[d] = "send" /\ To(d) = To(c) => c = d
      <4> SUFFICES ASSUME NEW c \in open, ans'[c] = "send"
                   PROVE  /\ st[To(c)] = "waiting" /\ pend'[To(c)] = None
                          /\ \A d \in open : ans'[d] = "send" /\ To(d) = To(c) => c = d
        OBVIOUS
      <4>1. CASE c = pend[n]
        BY <4>1, <3>1, <3>2, <3>3, <3>4
      <4>2. CASE c # pend[n]
        <5>1. ans[c] = "send" /\ To(c) # n /\ c \in Conns /\ Dialled(c)
          BY <3>2, <3>4, <4>2, CalledApart DEF Base, TypeOK
        <5>2. To(c) \in Nodes
          BY <5>1, EndsAreNodes DEF Dialled
        <5> QED
          BY <3>1, <3>3, <3>4, <5>1, <5>2 DEF OneController, Waiting
      <4> QED
        BY <4>1, <4>2
    <3>6. \A m \in Nodes : pend'[m] # None => st[m] = "waiting"
      BY <3>3 DEF OneController, Waiting
    <3> QED
      BY <2>1, <3>5, <3>6 DEF OneController, Hosting, Waiting, To
  <2> QED
    BY <2>2, <2>3
<1>12. ASSUME NEW c \in Conns, AcceptSent(c) PROVE OneController'
  <2> DEFINE n == To(c)
  <2>1. n \in Called /\ n \in Nodes /\ c \in open /\ Dialled(c)
    BY <1>12, CalledApart, EndsAreNodes DEF AcceptSent, Dialled
  <2>2. /\ st' = [st EXCEPT ![n] = "sharing"] /\ link' = [link EXCEPT ![n] = c]
        /\ task' = [task EXCEPT ![n] = c] /\ host' = [host EXCEPT ![c] = "run"]
        /\ ans' = [ans EXCEPT ![c] = "done"] /\ open' \subseteq open
        /\ UNCHANGED <<pend, acc, ends>>
    BY <1>12 DEF AcceptSent, EnterSharing
  <2>3. /\ st[n] = "waiting" /\ pend[n] = None
        /\ \A d \in open : ans[d] = "send" /\ To(d) = n => d = c
    BY <1>12, <2>1 DEF AcceptSent, OneController, Waiting
  <2>4. acc[n] = None
    BY <2>1, <2>3 DEF OneController, Waiting, Active
  <2>5. \A d \in Conns : To(d) = n => host[d] \notin {"run", "rest"}
    BY <2>3, Alone
  <2>6. \A m \in Nodes : m # n => st'[m] = st[m] /\ link'[m] = link[m] /\ task'[m] = task[m]
    BY <2>2 DEF Base, TypeOK, Slots
  <2>7. st'[n] = "sharing" /\ link'[n] = c /\ task'[n] = c
    BY <2>1, <2>2 DEF Base, TypeOK, Slots
  <2>8. /\ host'[c] = "run" /\ ans'[c] = "done"
        /\ \A d \in Conns : d # c => host'[d] = host[d] /\ ans'[d] = ans[d]
    BY <2>2 DEF Base, TypeOK
  <2>9. \A d \in Conns : To(d)' = To(d)
    BY <2>2 DEF To
  <2>10. open \subseteq Conns
    BY DEF Base, TypeOK
  <2> HIDE DEF n
  <2>11. Hosting'
    <3> SUFFICES ASSUME NEW d \in Conns, host'[d] \in {"run", "rest"}
                 PROVE  /\ st'[To(d)'] = "sharing" /\ task'[To(d)'] = d
                        /\ host'[d] = "run" /\ d \in open' => link'[To(d)'] = d
      BY DEF Hosting
    <3>1. CASE d = c
      BY <2>7, <2>9, <3>1 DEF n
    <3>2. CASE d # c
      <4>1. host'[d] = host[d] /\ To(d) # n /\ Dialled(d)
        BY <2>5, <2>8, <3>2, CalledApart
      <4>2. To(d) \in Nodes
        BY <4>1, EndsAreNodes DEF Dialled
      <4> QED
        BY <2>2, <2>6, <2>9, <4>1, <4>2 DEF OneController, Hosting
    <3> QED
      BY <3>1, <3>2
  <2>12. ASSUME NEW d \in open', ans'[d] = "send"
         PROVE  d \in open /\ ans[d] = "send" /\ To(d) # n /\ To(d) \in Nodes
    <3>1. d \in open /\ d \in Conns /\ d # c /\ ans[d] = "send"
      BY <2>2, <2>8, <2>10, <2>12
    <3>2. To(d) # n /\ Dialled(d)
      BY <2>3, <3>1, CalledApart
    <3> QED
      BY <3>1, <3>2, EndsAreNodes DEF Dialled
  <2>13. \A d \in open' : ans'[d] = "send" =>
           /\ st'[To(d)'] = "waiting" /\ pend'[To(d)'] = None
           /\ \A e \in open' : ans'[e] = "send" /\ To(e)' = To(d)' => d = e
    BY <2>2, <2>6, <2>9, <2>10, <2>12 DEF OneController, Waiting
  <2>14. \A m \in Nodes : /\ pend'[m] # None => st'[m] = "waiting"
                          /\ acc'[m] # None => st'[m] \notin Active
    BY <2>2, <2>3, <2>4, <2>6 DEF OneController, Waiting
  <2> QED
    BY <2>11, <2>13, <2>14 DEF OneController, Waiting
<1>13. ASSUME NEW c \in Conns, AcceptFails(c) PROVE OneController'
  <2>1. UNCHANGED <<st, task, link, pend, acc, host, open>>
        /\ \A d \in Conns : ans'[d] = "send" => ans[d] = "send"
    BY <1>13 DEF AcceptFails, Base, TypeOK
  <2> QED
    BY <1>0, <2>1, OneControllerKeeps
<1>14. ASSUME NEW n \in Nodes, HangUp(n), UNCHANGED <<st, task, pend, acc, ans>>,
              \A c \in Conns : /\ host[c] \in {"none", "done"} => host'[c] = host[c]
                               /\ host[c] = "rest" => host'[c] # "run"
       PROVE  OneController'
  <2>1. /\ open' \subseteq open
        /\ \A m \in Nodes : link'[m] = link[m] \/ (link[m] # None /\ link[m] \notin open')
    BY <1>14 DEF HangUp, Base, TypeOK, Slots
  <2> QED
    BY <1>0, <1>1, <1>14, <2>1, OneControllerKeeps
<1>15. ASSUME NEW n \in Nodes, DisconnectLink(n) PROVE OneController'
  <2>1. \A c \in Conns : /\ host[c] \in {"none", "done"} => host'[c] = host[c]
                         /\ host[c] = "rest" => host'[c] # "run"
    BY <1>15 DEF DisconnectLink
  <2> QED
    BY <1>14, <1>15, <2>1 DEF DisconnectLink
<1>16. ASSUME NEW c \in Conns, CtlBye(c) \/ HostBye(c) PROVE OneController'
  <2>1. From(c) \in Nodes /\ To(c) \in Nodes
    BY <1>16, EndsAreNodes DEF CtlBye, HostBye, Bye, Base, Unsent, Dialled
  <2>2. \A d \in Conns : /\ host[d] \in {"none", "done"} => host'[d] = host[d]
                         /\ host[d] = "rest" => host'[d] # "run"
    BY <1>16 DEF CtlBye, HostBye, Bye, Base, TypeOK
  <2> QED
    BY <1>14, <1>16, <2>1, <2>2 DEF CtlBye, HostBye
<1>17. ASSUME NEW n \in Nodes, DisconnectRest(n) PROVE OneController'
  <2>1. /\ st' = [st EXCEPT ![n] = "disconnected"] /\ pend' = [pend EXCEPT ![n] = None]
        /\ task' = [task EXCEPT ![n] = None]
        /\ open' \subseteq open /\ UNCHANGED <<link, acc, ans, ends>>
        /\ dis[n] # "none"
    BY <1>17 DEF DisconnectRest, Forget, SetInfo
  <2>2. \A m \in Nodes \ {n} : st'[m] = st[m] /\ task'[m] = task[m] /\ pend'[m] = pend[m]
    BY <2>1 DEF Base, TypeOK, Slots
  <2>3. pend'[n] = None /\ st'[n] \notin Active
    BY <2>1 DEF Base, TypeOK, Slots, Active
  <2>4. task[n] # None => task[n] \in Conns /\ Dialled(task[n]) /\ n \in {From(task[n]), To(task[n])}
    BY DEF Base, TypeOK, Slots, Holds
  <2>5. \A c \in Conns : host'[c] = host[c] \/ (c = task[n] /\ From(c) # n /\ host'[c] = "done")
    BY <1>17, <2>4 DEF DisconnectRest, Base, TypeOK
  <2>6. \A c \in Conns : Dialled(c) /\ To(c) = n => host'[c] \notin {"run", "rest"}
    <3> SUFFICES ASSUME NEW c \in Conns, Dialled(c), To(c) = n, host[c] \in {"run", "rest"}
                 PROVE  host'[c] = "done"
      BY <2>5
    <3>1. task[n] = c /\ c # None
      BY PlacesType DEF OneController, Hosting, Base
    <3>2. From(c) # n
      BY EndsAreNodes DEF Dialled
    <3> QED
      BY <1>17, <3>1, <3>2 DEF DisconnectRest, Base, TypeOK
  <2>7. \A c \in open : To(c) = n => ans[c] # "send"
    BY <2>1 DEF Undisturbed
  <2>8. \A c \in Conns : To(c) # n \/ ~Dialled(c) => host'[c] = host[c]
    BY <2>4, <2>5, PlacesType DEF Base
  <2> QED
    BY <1>0, <1>1, <2>1, <2>2, <2>3, <2>6, <2>7, <2>8, NobodyKeeps
<1>18. ASSUME NEW c \in Conns, CtlRest(c) PROVE OneController'
  <2>1. From(c) \in Nodes /\ From(c) \notin Called
    BY <1>18, EndsAreNodes, CalledApart DEF CtlRest, Bye, Base, Unsent, Dialled
  <2>2. /\ \E s : st' = [st EXCEPT ![From(c)] = s]
        /\ pend' = [pend EXCEPT ![From(c)] = None]
        /\ open' \subseteq open /\ UNCHANGED <<link, task, acc, ans, host>>
    BY <1>18 DEF CtlRest, Forget, SetInfo, LoopEnds, loopSame
  <2>3. /\ \A n \in Called : st'[n] = st[n]
        /\ \A n \in Nodes : pend'[n] \in {pend[n], None}
    BY <1>1, <2>1, <2>2 DEF Base, TypeOK, Slots
  <2> QED
    BY <1>0, <2>2, <2>3, OneControllerKeeps
<1>19. ASSUME NEW c \in Conns, HostRest(c) PROVE OneController'
  <2>1. /\ host[c] \in {"run", "rest"} /\ host' = [host EXCEPT ![c] = "done"]
        /\ st' = [st EXCEPT ![To(c)] = "disconnected"]
        /\ pend' = [pend EXCEPT ![To(c)] = None]
        /\ open' \subseteq open /\ UNCHANGED <<link, task, acc, ans>>
    BY <1>19 DEF HostRest, Bye, Forget, SetInfo, LoopEnds, loopSame
  <2>2. Dialled(c) /\ To(c) \in Nodes
    BY <2>1, CalledApart, EndsAreNodes DEF Dialled
  <2>3. st[To(c)] = "sharing" /\ task[To(c)] = c
    BY <2>1 DEF OneController, Hosting
  <2>4. \A m \in Nodes \ {To(c)} : st'[m] = st[m] /\ pend'[m] = pend[m]
    BY <2>1 DEF Base, TypeOK, Slots
  <2>5. pend'[To(c)] = None /\ st'[To(c)] \notin Active
    BY <2>1, <2>2 DEF Base, TypeOK, Slots, Active
  <2>6. \A d \in Conns : d # c => host'[d] = host[d]
    BY <2>1 DEF Base, TypeOK
  <2>7. \A d \in Conns : To(d) = To(c) => host'[d] \notin {"run", "rest"}
    BY <2>1, <2>3, <2>6 DEF OneController, Hosting, Base, TypeOK
  <2>8. \A d \in open : To(d) = To(c) => ans[d] # "send"
    BY <2>3, Alone
  <2> QED
    BY <1>0, <1>1, <2>1, <2>2, <2>4, <2>5, <2>6, <2>7, <2>8, NobodyKeeps
<1>20. ASSUME NEW c \in Conns, CtlCut(c) \/ HostCut(c) \/ Lose(c) PROVE OneController'
  <2>1. UNCHANGED <<st, task, link, pend, acc, ans>> /\ open' \subseteq open
    BY <1>20 DEF CtlCut, HostCut, Lose, LoopEnds, loopSame
  <2>2. \A d \in Conns : /\ host[d] \in {"none", "done"} => host'[d] = host[d]
                         /\ host[d] = "rest" => host'[d] # "run"
    BY <1>20 DEF CtlCut, HostCut, Cut, Lose, Base, TypeOK
  <2> QED
    BY <1>0, <2>1, <2>2, OneControllerKeeps
<1>21. ASSUME NEW c \in Conns, Check(c) \/ Caller(c) \/ Expire(c) \/ Answer(c)
       PROVE  OneController'
  BY <1>2, <1>3, <1>4, <1>5, <1>10, <1>12, <1>13, <1>21 DEF Caller, Answer
<1>22. ASSUME NEW c \in Conns, CtlLoop(c) \/ HostLoop(c) \/ Lose(c) PROVE OneController'
  BY <1>16, <1>18, <1>19, <1>20, <1>22 DEF CtlLoop, HostLoop
<1>23. ASSUME NEW n \in Nodes,
              Acceptor(n) \/ Reject(n) \/ Accept(n) \/ Disconnect(n) \/ Hanging(n)
       PROVE  OneController'
  BY <1>6, <1>7, <1>8, <1>9, <1>11, <1>15, <1>17, <1>23 DEF Acceptor, Hanging
<1> QED
  BY <1>21, <1>22, <1>23, NextCases

\* Whoever is controlled can end it, as long as no disconnection meets an
\* acceptance: a device shares with one controller at a time, over the connection
\* that session.disconnect closes, with the loop that abort_loops reaches.
THEOREM ControlEnds == ASSUME Apart PROVE Spec => ControlCanEnd
<1>1. Init => OneController
  BY DEF Init, OneController, Hosting, Waiting
<1>2. Base /\ OneController /\ Undisturbed /\ [Next]_vars => OneController'
  <2>1. ASSUME OneController, UNCHANGED vars PROVE OneController'
    BY <2>1 DEF OneController, Hosting, Waiting, To, vars, infoVars, netVars, loopVars
  <2> QED
    BY <2>1, OneControllerStep
<1>3. OneController /\ Base => Controlled
  BY DEF OneController, Hosting, Controlled, Base, TypeOK
<1> QED
  BY <1>1, <1>2, <1>3, AlwaysBase, PTL DEF Spec, ControlCanEnd
=============================================================================
