------------------------ MODULE DesktopVideoProofs -------------------------
(***************************************************************************)
(* What holds of the video stream of a desktop share for any sizes of the  *)
(* screen, any rate, room and lag, and any number of captures, changes of  *)
(* the screen and decoders: the types, and that a decoder is fed in order. *)
(*                                                                         *)
(* The invariant looks at the frames under way, from the channel of the    *)
(* capture in the state to the controller (Stream).  Each of them follows  *)
(* the one before, or is a key frame, or lies next to a stream that ended  *)
(* early; the decoder goes on where the stream begins, and the encoder     *)
(* where it ends.  A restart cuts the stream and the next capture begins   *)
(* with a key frame, so that the two ends need not fit then.               *)
(***************************************************************************)
EXTENDS DesktopVideo, SequenceTheorems, TLAPS

-----------------------------------------------------------------------------
(* The invariant.                                                          *)

Items    == Frames \union {Torn}   \* what goes over the connection
Pictures == Sizes \union {Target(s) : s \in Sizes} \union {<<0, 0>>}
Encoder  == [number : Nat, size : Pictures, next : 0..(Gop - 1), fresh : BOOLEAN,
             params : BOOLEAN]
Decoder  == [got : BOOLEAN, last : Frames \union {NoFrame}, hole : BOOLEAN, queue : 0..(Lag + 2)]

HostValues ==
    /\ size \in Sizes /\ change \subseteq Captures
    /\ thread \in [Captures -> {"none", "run", "done"}]
    /\ enc \in [Captures -> Encoder]
    /\ chan \in [Captures -> Seq(Frames)] /\ \A k \in Captures : Len(chan[k]) <= Room
    /\ sender \in [Captures -> {"none", "run", "gone"}]
    /\ cur \in Captures \union {None} /\ stopping = (cur = None)
    /\ resizes \in 0..MaxResizes

ClientValues ==
    /\ wire \in Seq(Items) /\ Len(wire) <= Room
    /\ loop \in {"run", "done"}
    /\ canvases \in Nat /\ errors \in Nat /\ canvases + errors <= MaxDecoders
    /\ page \in {None, canvases} /\ reg \in 0..canvases
    /\ dec \in Decoder /\ pic \in BOOLEAN

\* Only the send task of the capture in the state runs, and only its channel is in use.
Stored ==
    \A k \in Captures : /\ sender[k] = "run" <=> k = cur
                        /\ k # cur => chan[k] = <<>>
                        /\ thread[k] = "none" => sender[k] = "none"

\* An encoder is numbered after a change of the screen, starts with a key frame and
\* has the parameter sets from its first frame on.
Numbered(e) ==
    /\ e.number <= resizes /\ (~e.fresh /\ e.size # Target(size) => e.number < resizes)
    /\ e.fresh => e.next = 0
    /\ ~e.fresh => e.params

Encoders == \A k \in Captures : Numbered(enc[k])

\* A decoder that has begun belongs to the canvas whose channel is registered.
Fed == dec.got => page # None /\ reg = page /\ dec.last \in Frames

\* What follows the frame a.
Linked(a, b)    == Torn \in {a, b} \/ Key(b) \/ Before(a, b)
Continued(a, e) == e.next = 0 \/ (a.enc = e.number /\ e.next = (a.pos + 1) % Gop)

\* The frames that are under way, from the encoder of the capture in the state to the
\* controller.
Stream == IF cur = None THEN wire ELSE wire \o chan[cur]

\* The next frame of the capture in the state follows the frame a.
Goes(a) ==
    a # Torn /\ cur # None /\ thread[cur] = "run" =>
        Continued(a, enc[cur]) /\ (enc[cur].next = 0 \/ a.cap = cur)

Complete(s) == \A i \in 1..Len(s) : Key(s[i]) => s[i].params
Chained(s)  == \A i \in 1..(Len(s) - 1) : Linked(s[i], s[i + 1])

\* The decoder goes on where the stream does.
Attached ==
    loop = "run" /\ dec.got /\ ~dec.hole =>
        IF Stream = <<>> THEN Goes(dec.last) ELSE Linked(dec.last, Head(Stream))

InOrder ==
    /\ Complete(Stream) /\ Chained(Stream)
    /\ Stream # <<>> => Goes(Stream[Len(Stream)])
    /\ Attached

Inv == HostValues /\ ClientValues /\ Stored /\ Encoders /\ Fed /\ InOrder

-----------------------------------------------------------------------------
(* Lemmas about the operators.                                             *)

LEMMA Remainder == \A n \in Nat : n % Gop \in 0..(Gop - 1)
BY ConstantsOK

\* A stream that ends early is no frame, and no key frame.
LEMMA TornIsNone ==
    /\ Torn \notin Frames /\ Torn.pos = 1 /\ ~Key(Torn)
    /\ None \notin Captures
BY DEF Torn, Frames, NoFrame, Key, Captures, None

\* The encoder that capture_loop uses for the next picture.
LEMMA EncoderForOK ==
    ASSUME HostValues, Encoders, NEW k \in Captures, thread[k] = "run"
    PROVE  /\ EncoderFor(k) \in Encoder /\ Numbered(EncoderFor(k))
           /\ EncoderFor(k).size = Target(size)
           /\ EncoderFor(k) = enc[k] \/ EncoderFor(k).next = 0
<1>1. enc[k] \in Encoder /\ Numbered(enc[k]) /\ size \in Sizes /\ resizes \in Nat
  BY DEF HostValues, Encoders
<1>2. CASE enc[k].size = Target(size)
  BY <1>1, <1>2 DEF EncoderFor
<1>3. CASE enc[k].size # Target(size)
  <2> DEFINE number == IF enc[k].fresh THEN enc[k].number ELSE enc[k].number + 1
  <2>1. /\ EncoderFor(k) = [number |-> number, size |-> Target(size), next |-> 0,
                            fresh |-> TRUE, params |-> FALSE]
    BY <1>3 DEF EncoderFor, NewEncoder, NoEncoder
  <2>2. number \in Nat /\ number <= resizes
    BY <1>1, <1>3 DEF Numbered, Encoder
  <2>3. Target(size) \in Pictures
    BY <1>1 DEF Pictures
  <2>4. 0 \in 0..(Gop - 1)
    BY ConstantsOK
  <2> HIDE DEF number
  <2> QED
    BY <2>1, <2>2, <2>3, <2>4 DEF Encoder, Numbered
<1> QED
  BY <1>2, <1>3

\* What an encoder puts out, and what that makes of it.
LEMMA Encoding ==
    ASSUME NEW e \in Encoder, Numbered(e), e.size = Target(size), resizes \in 0..MaxResizes,
           NEW k \in Captures, NEW params \in Outputs(e)
    PROVE  /\ Encoded(e, params) \in Encoder /\ Numbered(Encoded(e, params))
           /\ FrameOf(k, e, params) \in Frames
           /\ Key(FrameOf(k, e, params)) => FrameOf(k, e, params).params
           /\ Continued(FrameOf(k, e, params), Encoded(e, params))
           /\ FrameOf(k, e, params).cap = k
           /\ \A a : Continued(a, e) /\ (e.next = 0 \/ a.cap = k) => Linked(a, FrameOf(k, e, params))
<1>1. params \in BOOLEAN /\ (e.fresh => params = TRUE)
  BY DEF Outputs
<1>2. /\ e = [number |-> e.number, size |-> e.size, next |-> e.next, fresh |-> e.fresh,
              params |-> e.params]
      /\ e.number \in Nat /\ e.size \in Pictures /\ e.next \in 0..(Gop - 1)
      /\ e.fresh \in BOOLEAN /\ e.params \in BOOLEAN
  BY DEF Encoder
<1>3. (e.params \/ params) = TRUE
  BY <1>1, <1>2 DEF Numbered
<1>4. (e.next + 1) % Gop \in 0..(Gop - 1)
  BY <1>2, Remainder
<1>5. Encoded(e, params) = [number |-> e.number, size |-> e.size, next |-> (e.next + 1) % Gop,
                            fresh |-> FALSE, params |-> TRUE]
  <2>1. Encoded(e, params) = [e EXCEPT !.next = (@ + 1) % Gop, !.fresh = FALSE, !.params = TRUE]
    BY <1>3 DEF Encoded
  <2> QED
    BY <1>2, <2>1
<1>6. Encoded(e, params) \in Encoder
  BY <1>2, <1>4, <1>5 DEF Encoder
<1>7. Numbered(Encoded(e, params))
  BY <1>2, <1>5 DEF Numbered
<1>8. FrameOf(k, e, params) = [cap |-> k, enc |-> e.number, pos |-> e.next, params |-> e.next = 0]
  <2>1. (e.next = 0 /\ (e.params \/ params)) = (e.next = 0)
    BY <1>3
  <2> QED
    BY <2>1 DEF FrameOf
<1>9. (e.next = 0) \in BOOLEAN
  OBVIOUS
<1>10. e.number \in 0..(MaxResizes + 1)
  BY <1>2, ConstantsOK DEF Numbered
<1>11. FrameOf(k, e, params) \in Frames
  BY <1>2, <1>8, <1>9, <1>10 DEF Frames
<1>12. Key(FrameOf(k, e, params)) => FrameOf(k, e, params).params
  <2> SUFFICES ASSUME Key(FrameOf(k, e, params)) PROVE FrameOf(k, e, params).params
    OBVIOUS
  <2>1. e.next = 0
    BY <1>8 DEF Key
  <2>2. (e.next = 0 /\ (e.params \/ params)) = TRUE
    BY <1>3, <2>1
  <2>3. FrameOf(k, e, params) = [cap |-> k, enc |-> e.number, pos |-> e.next, params |-> TRUE]
    BY <2>2 DEF FrameOf
  <2> QED
    BY <2>3
<1>13. /\ Continued(FrameOf(k, e, params), Encoded(e, params))
       /\ FrameOf(k, e, params).cap = k
  BY <1>5, <1>8 DEF Continued
<1>14. \A a : Continued(a, e) /\ (e.next = 0 \/ a.cap = k) => Linked(a, FrameOf(k, e, params))
  BY <1>8 DEF Continued, Linked, Key, Before
<1> QED
  BY <1>6, <1>7, <1>11, <1>12, <1>13, <1>14

LEMMA Front ==
    ASSUME NEW S, NEW s \in Seq(S), s # <<>>
    PROVE  /\ Tail(s) \in Seq(S) /\ Head(s) \in S /\ Head(s) = s[1]
           /\ Len(s) \in Nat \ {0} /\ Len(Tail(s)) = Len(s) - 1
           /\ \A i \in 1..Len(Tail(s)) : Tail(s)[i] = s[i + 1]
           /\ Tail(s) # <<>> <=> Len(s) > 1
<1>1. /\ Tail(s) \in Seq(S) /\ Head(s) \in S /\ Head(s) = s[1]
      /\ Len(s) \in Nat \ {0} /\ Len(Tail(s)) = Len(s) - 1
      /\ \A i \in 1..Len(Tail(s)) : Tail(s)[i] = s[i + 1]
  BY HeadTailProperties, LenProperties, EmptySeq
<1>2. Tail(s) = <<>> <=> Len(Tail(s)) = 0
  BY <1>1, EmptySeq
<1> QED
  BY <1>1, <1>2

LEMMA Back ==
    ASSUME NEW S, NEW s \in Seq(S), NEW e \in S
    PROVE  /\ Append(s, e) \in Seq(S) /\ Append(s, e) # <<>>
           /\ Len(s) \in Nat /\ Len(Append(s, e)) = Len(s) + 1
           /\ Append(s, e)[Len(s) + 1] = e
           /\ \A i \in 1..Len(s) : Append(s, e)[i] = s[i]
BY AppendProperties, LenProperties, EmptySeq

\* One frame more.
LEMMA Longer ==
    ASSUME NEW S, NEW s \in Seq(S), NEW f \in S, Complete(s), Chained(s),
           Key(f) => f.params, s # <<>> => Linked(s[Len(s)], f)
    PROVE  Complete(Append(s, f)) /\ Chained(Append(s, f))
<1>1. /\ Len(s) \in Nat /\ Len(Append(s, f)) = Len(s) + 1
      /\ Append(s, f)[Len(s) + 1] = f
      /\ \A i \in 1..Len(s) : Append(s, f)[i] = s[i]
      /\ s # <<>> <=> Len(s) # 0
  BY Back, EmptySeq
<1>2. Complete(Append(s, f))
  BY <1>1 DEF Complete
<1>3. Chained(Append(s, f))
  <2> SUFFICES ASSUME NEW i \in 1..Len(s) PROVE Linked(Append(s, f)[i], Append(s, f)[i + 1])
    BY <1>1 DEF Chained
  <2>1. CASE i = Len(s)
    BY <1>1, <2>1
  <2>2. CASE i # Len(s)
    <3>1. i \in 1..(Len(s) - 1) /\ i + 1 \in 1..Len(s)
      BY <1>1, <2>2
    <3> QED
      BY <1>1, <3>1 DEF Chained
  <2> QED
    BY <2>1, <2>2
<1> QED
  BY <1>2, <1>3

\* One frame less.
LEMMA Rest ==
    ASSUME NEW S, NEW s \in Seq(S), s # <<>>, Complete(s), Chained(s)
    PROVE  /\ Complete(Tail(s)) /\ Chained(Tail(s))
           /\ Tail(s) # <<>> => /\ Linked(Head(s), Head(Tail(s)))
                                /\ Tail(s)[Len(Tail(s))] = s[Len(s)]
           /\ Tail(s) = <<>> => Head(s) = s[Len(s)]
<1>1. /\ Tail(s) \in Seq(S) /\ Head(s) = s[1]
      /\ Len(s) \in Nat \ {0} /\ Len(Tail(s)) = Len(s) - 1
      /\ \A i \in 1..Len(Tail(s)) : Tail(s)[i] = s[i + 1]
      /\ Tail(s) # <<>> <=> Len(s) > 1
  BY Front
<1>2. Complete(Tail(s))
  BY <1>1 DEF Complete
<1>3. Chained(Tail(s))
  BY <1>1 DEF Chained
<1>4. ASSUME Tail(s) # <<>>
      PROVE  Linked(Head(s), Head(Tail(s))) /\ Tail(s)[Len(Tail(s))] = s[Len(s)]
  <2>1. Head(Tail(s)) = Tail(s)[1] /\ 1 \in 1..Len(Tail(s))
    BY <1>1, <1>4, Front
  <2>2. Head(Tail(s)) = s[2] /\ 1 \in 1..(Len(s) - 1)
    BY <1>1, <2>1
  <2> QED
    BY <1>1, <1>4, <2>2 DEF Chained
<1> QED
  BY <1>1, <1>2, <1>3, <1>4

\* The frames that were first remain what they were.
LEMMA First ==
    ASSUME NEW S, NEW s \in Seq(S), NEW t \in Seq(S), Complete(s \o t), Chained(s \o t)
    PROVE  Complete(s) /\ Chained(s)
<1>1. /\ Len(s) \in Nat /\ Len(t) \in Nat /\ Len(s \o t) = Len(s) + Len(t)
      /\ \A i \in 1..Len(s) : (s \o t)[i] = s[i] /\ i \in 1..Len(s \o t)
  BY ConcatProperties, LenProperties
<1>2. Complete(s)
  BY <1>1 DEF Complete
<1>3. \A i \in 1..(Len(s) - 1) : /\ i \in 1..Len(s) /\ i + 1 \in 1..Len(s)
                                 /\ i \in 1..(Len(s \o t) - 1)
  BY <1>1
<1> QED
  BY <1>1, <1>2, <1>3 DEF Chained

\* Where one frame goes in the middle or at the end, nothing changes for the stream.
LEMMA Regroup ==
    ASSUME NEW S, NEW s \in Seq(S), NEW t \in Seq(S)
    PROVE  /\ \A f \in S : s \o Append(t, f) = Append(s \o t, f)
           /\ t # <<>> => Append(s, Head(t)) \o Tail(t) = s \o t
           /\ s # <<>> => Tail(s) \o t = Tail(s \o t) /\ Head(s \o t) = Head(s) /\ s \o t # <<>>
<1>1. /\ s \o t \in Seq(S) /\ Len(s) \in Nat /\ Len(t) \in Nat /\ Len(s \o t) = Len(s) + Len(t)
      /\ \A i \in 1..(Len(s) + Len(t)) : (s \o t)[i] = IF i <= Len(s) THEN s[i] ELSE t[i - Len(s)]
  BY ConcatProperties, LenProperties
<1>2. ASSUME NEW f \in S PROVE s \o Append(t, f) = Append(s \o t, f)
  <2>1. /\ Append(t, f) \in Seq(S) /\ Len(Append(t, f)) = Len(t) + 1
        /\ Append(t, f)[Len(t) + 1] = f
        /\ \A i \in 1..Len(t) : Append(t, f)[i] = t[i]
    BY Back
  <2>2. /\ Append(s \o t, f) \in Seq(S) /\ Len(Append(s \o t, f)) = Len(s) + Len(t) + 1
        /\ Append(s \o t, f)[Len(s) + Len(t) + 1] = f
        /\ \A i \in 1..(Len(s) + Len(t)) : Append(s \o t, f)[i] = (s \o t)[i]
    BY <1>1, Back
  <2>3. /\ s \o Append(t, f) \in Seq(S) /\ Len(s \o Append(t, f)) = Len(s) + Len(t) + 1
        /\ \A i \in 1..(Len(s) + Len(t) + 1) :
              (s \o Append(t, f))[i] = IF i <= Len(s) THEN s[i] ELSE Append(t, f)[i - Len(s)]
    BY <1>1, <2>1, ConcatProperties
  <2>4. ASSUME NEW i \in 1..(Len(s) + Len(t) + 1)
        PROVE  (s \o Append(t, f))[i] = Append(s \o t, f)[i]
    <3>1. CASE i = Len(s) + Len(t) + 1
      <4>1. ~(i <= Len(s)) /\ i - Len(s) = Len(t) + 1
        BY <1>1, <3>1
      <4> QED
        BY <2>1, <2>2, <2>3, <3>1, <4>1
    <3>2. CASE i \in 1..Len(s)
      BY <1>1, <2>2, <2>3, <3>2
    <3>3. CASE i \in (Len(s) + 1)..(Len(s) + Len(t))
      <4>1. i - Len(s) \in 1..Len(t) /\ ~(i <= Len(s)) /\ i \in 1..(Len(s) + Len(t))
        BY <1>1, <3>3
      <4> QED
        BY <1>1, <2>1, <2>2, <2>3, <4>1
    <3> QED
      BY <1>1, <3>1, <3>2, <3>3
  <2> QED
    BY <2>2, <2>3, <2>4, SeqEqual
<1>3. ASSUME t # <<>> PROVE Append(s, Head(t)) \o Tail(t) = s \o t
  <2>1. /\ Tail(t) \in Seq(S) /\ Head(t) \in S /\ Head(t) = t[1]
        /\ Len(t) \in Nat \ {0} /\ Len(Tail(t)) = Len(t) - 1
        /\ \A i \in 1..Len(Tail(t)) : Tail(t)[i] = t[i + 1]
    BY <1>3, Front
  <2>2. /\ Append(s, Head(t)) \in Seq(S) /\ Len(Append(s, Head(t))) = Len(s) + 1
        /\ Append(s, Head(t))[Len(s) + 1] = t[1]
        /\ \A i \in 1..Len(s) : Append(s, Head(t))[i] = s[i]
    BY <2>1, Back
  <2> DEFINE u == Append(s, Head(t)) \o Tail(t)
  <2>3. /\ u \in Seq(S) /\ Len(u) = Len(s) + Len(t)
        /\ \A i \in 1..(Len(s) + Len(t)) :
              u[i] = IF i <= Len(s) + 1 THEN Append(s, Head(t))[i] ELSE Tail(t)[i - (Len(s) + 1)]
    BY <1>1, <2>1, <2>2, ConcatProperties
  <2> HIDE DEF u
  <2>4. ASSUME NEW i \in 1..(Len(s) + Len(t)) PROVE u[i] = (s \o t)[i]
    <3>1. CASE i = Len(s) + 1
      <4>1. ~(i <= Len(s)) /\ i - Len(s) = 1
        BY <1>1, <3>1
      <4> QED
        BY <1>1, <2>2, <2>3, <3>1, <4>1
    <3>2. CASE i \in 1..Len(s)
      BY <1>1, <2>2, <2>3, <3>2
    <3>3. CASE i \in (Len(s) + 2)..(Len(s) + Len(t))
      <4>1. /\ i - (Len(s) + 1) \in 1..Len(Tail(t)) /\ ~(i <= Len(s) + 1) /\ ~(i <= Len(s))
            /\ (i - (Len(s) + 1)) + 1 = i - Len(s)
        BY <1>1, <2>1, <3>3
      <4>2. u[i] = Tail(t)[i - (Len(s) + 1)] /\ (s \o t)[i] = t[i - Len(s)]
        BY <1>1, <2>3, <4>1
      <4> QED
        BY <2>1, <4>1, <4>2
    <3> QED
      BY <1>1, <3>1, <3>2, <3>3
  <2> QED
    BY <1>1, <2>3, <2>4, SeqEqual DEF u
<1>4. ASSUME s # <<>> PROVE Tail(s) \o t = Tail(s \o t) /\ Head(s \o t) = Head(s) /\ s \o t # <<>>
  <2>1. /\ Tail(s) \in Seq(S) /\ Head(s) = s[1]
        /\ Len(s) \in Nat \ {0} /\ Len(Tail(s)) = Len(s) - 1
        /\ \A i \in 1..Len(Tail(s)) : Tail(s)[i] = s[i + 1]
    BY <1>4, Front
  <2>2. s \o t # <<>>
    BY <1>1, <2>1, EmptySeq
  <2>3. /\ Tail(s \o t) \in Seq(S) /\ Head(s \o t) = (s \o t)[1]
        /\ Len(Tail(s \o t)) = Len(s) + Len(t) - 1
        /\ \A i \in 1..(Len(s) + Len(t) - 1) : Tail(s \o t)[i] = (s \o t)[i + 1]
    BY <1>1, <2>2, Front
  <2>4. /\ Tail(s) \o t \in Seq(S) /\ Len(Tail(s) \o t) = Len(s) + Len(t) - 1
        /\ \A i \in 1..(Len(s) + Len(t) - 1) :
              (Tail(s) \o t)[i] = IF i <= Len(s) - 1 THEN Tail(s)[i] ELSE t[i - (Len(s) - 1)]
    BY <1>1, <2>1, ConcatProperties
  <2>5. ASSUME NEW i \in 1..(Len(s) + Len(t) - 1) PROVE (Tail(s) \o t)[i] = Tail(s \o t)[i]
    <3>1. i + 1 \in 1..(Len(s) + Len(t)) /\ (i <= Len(s) - 1 <=> i + 1 <= Len(s))
          /\ (i + 1) - Len(s) = i - (Len(s) - 1)
      BY <1>1, <2>1
    <3>2. i <= Len(s) - 1 => i \in 1..Len(Tail(s))
      BY <1>1, <2>1
    <3> QED
      BY <1>1, <2>1, <2>3, <2>4, <3>1, <3>2
  <2>6. Head(s \o t) = Head(s)
    BY <1>1, <2>1, <2>3
  <2> QED
    BY <2>2, <2>3, <2>4, <2>5, <2>6, SeqEqual
<1> QED
  BY <1>2, <1>3, <1>4

LEMMA StreamType ==
    ASSUME HostValues, ClientValues
    PROVE  /\ Stream \in Seq(Items)
           /\ cur # None => chan[cur] \in Seq(Items) /\ chan[cur] \in Seq(Frames) /\ cur \in Captures
<1>1. wire \in Seq(Items)
  BY DEF ClientValues
<1>2. cur # None => chan[cur] \in Seq(Frames) /\ cur \in Captures
  BY DEF HostValues
<1>3. cur # None => chan[cur] \in Seq(Items)
  BY <1>2, SeqMonotonic DEF Items
<1> QED
  BY <1>1, <1>2, <1>3, ConcatProperties DEF Stream

-----------------------------------------------------------------------------
(* The host.                                                               *)

\* The encoders of a step that changes neither the screen nor the number of changes.
LEMMA NumberedKeeps ==
    ASSUME UNCHANGED <<size, resizes>>, NEW e, Numbered(e)
    PROVE  Numbered(e)'
BY DEF Numbered, Target

LEMMA NoEncoderOK ==
    ASSUME HostValues PROVE NoEncoder \in Encoder /\ Numbered(NoEncoder)
<1>1. 0 \in 0..(Gop - 1) /\ resizes \in Nat
  BY ConstantsOK DEF HostValues
<1> QED
  BY <1>1 DEF NoEncoder, Encoder, Pictures, Numbered

LEMMA EncoderIs ==
    ASSUME NEW number \in Nat, NEW s \in Pictures, NEW n \in 0..(Gop - 1)
    PROVE  [number |-> number, size |-> s, next |-> n, fresh |-> TRUE, params |-> FALSE] \in Encoder
BY DEF Encoder

LEMMA NewEncoderOK ==
    ASSUME HostValues, NEW s \in Sizes
    PROVE  NewEncoder(0, s) \in Encoder /\ Numbered(NewEncoder(0, s)) /\ NewEncoder(0, s).next = 0
<1>1. 0 \in 0..(Gop - 1) /\ resizes \in Nat /\ s \in Pictures
  BY ConstantsOK DEF HostValues, Pictures
<1>2. NewEncoder(0, s) = [number |-> 0, size |-> s, next |-> 0, fresh |-> TRUE, params |-> FALSE]
  <2>1. NewEncoder(0, s) = [NoEncoder EXCEPT !.number = 0, !.size = s]
    BY Zenon DEF NewEncoder
  <2>2. NewEncoder(0, s) = [[number |-> 0, size |-> <<0, 0>>, next |-> 0, fresh |-> TRUE,
                             params |-> FALSE] EXCEPT !.number = 0, !.size = s]
    BY <2>1, Zenon DEF NoEncoder
  <2> QED
    BY <2>2
<1>3. NewEncoder(0, s) \in Encoder
  BY <1>1, <1>2, EncoderIs
<1>4. Numbered(NewEncoder(0, s))
  BY <1>1, <1>2 DEF Numbered
<1> QED
  BY <1>2, <1>3, <1>4

LEMMA HostStep ==
    ASSUME Inv, Next PROVE HostValues' /\ Stored' /\ Encoders'
<1> DEFINE Goal == HostValues' /\ Stored' /\ Encoders'
<1> USE DEF hostVars
<1>0. HostValues /\ Stored /\ Encoders /\ ClientValues
  BY DEF Inv
<1>1. ASSUME ScreenChanges PROVE Goal
  <2>1. /\ size' \in Sizes /\ resizes' \in Nat /\ resizes' <= MaxResizes
        /\ resizes' = resizes + (IF size' = size THEN 0 ELSE 1)
        /\ change' \subseteq Captures
        /\ UNCHANGED <<thread, enc, chan, sender, cur, stopping>>
    BY <1>0, <1>1, ConstantsOK DEF ScreenChanges, HostValues, Running
  <2>2. HostValues'
    BY <1>0, <2>1, ConstantsOK DEF HostValues
  <2>3. Encoders'
    <3> SUFFICES ASSUME NEW k \in Captures PROVE Numbered(enc[k])'
      BY DEF Encoders
    <3>1. Numbered(enc[k]) /\ enc[k].number \in Nat
      BY <1>0 DEF Encoders, HostValues, Encoder
    <3>2. resizes \in Nat
      BY <1>0 DEF HostValues
    <3>3. CASE size' = size
      BY <2>1, <3>1, <3>2, <3>3 DEF Numbered, Target
    <3>4. CASE size' # size
      BY <2>1, <3>1, <3>2, <3>4 DEF Numbered
    <3> QED
      BY <3>3, <3>4
  <2> QED
    BY <1>0, <2>1, <2>2, <2>3 DEF Stored
<1>2. ASSUME NEW k \in Captures, EncoderFails(k) PROVE Goal
  <2>1. /\ thread' = [thread EXCEPT ![k] = "done"] /\ enc' = [enc EXCEPT ![k] = NoEncoder]
        /\ change' \subseteq change
        /\ UNCHANGED <<size, chan, sender, cur, stopping, resizes>>
    BY <1>2 DEF EncoderFails
  <2>2. HostValues'
    BY <1>0, <2>1, NoEncoderOK DEF HostValues
  <2>3. Encoders'
    BY <1>0, <2>1, NoEncoderOK, NumberedKeeps DEF HostValues, Encoders
  <2> QED
    BY <1>0, <2>1, <2>2, <2>3 DEF Stored, HostValues
<1>3. ASSUME NEW k \in Captures, Skip(k) PROVE Goal
  <2>1. /\ change' \subseteq change /\ thread[k] = "run"
        /\ enc' = enc \/ enc' = [enc EXCEPT ![k] = EncoderFor(k)]
        /\ UNCHANGED <<size, thread, chan, sender, cur, stopping, resizes>>
    BY <1>3 DEF Skip
  <2>2. EncoderFor(k) \in Encoder /\ Numbered(EncoderFor(k))
    BY <1>0, <2>1, EncoderForOK
  <2>3. HostValues'
    BY <1>0, <2>1, <2>2 DEF HostValues
  <2>4. Encoders'
    BY <1>0, <2>1, <2>2, NumberedKeeps DEF HostValues, Encoders
  <2> QED
    BY <1>0, <2>1, <2>3, <2>4 DEF Stored
<1>4. ASSUME NEW k \in Captures, Grab(k) PROVE Goal
  <2> DEFINE e == EncoderFor(k)
  <2>1. thread[k] = "run" /\ change' \subseteq change
        /\ UNCHANGED <<size, sender, cur, stopping, resizes>>
    BY <1>4 DEF Grab
  <2>2. /\ e \in Encoder /\ Numbered(e) /\ e.size = Target(size)
        /\ resizes \in 0..MaxResizes
    BY <1>0, <2>1, EncoderForOK DEF HostValues
  <2>3. CASE /\ sender[k] = "gone"
             /\ thread' = [thread EXCEPT ![k] = "done"] /\ enc' = [enc EXCEPT ![k] = NoEncoder]
             /\ UNCHANGED chan
    <3>1. HostValues'
      BY <1>0, <2>1, <2>3, NoEncoderOK DEF HostValues
    <3>2. Encoders'
      BY <1>0, <2>1, <2>3, NoEncoderOK, NumberedKeeps DEF HostValues, Encoders
    <3> QED
      BY <1>0, <2>1, <2>3, <3>1, <3>2 DEF Stored, HostValues
  <2>4. ASSUME NEW params \in Outputs(e), sender[k] = "run", Len(chan[k]) < Room,
               enc' = [enc EXCEPT ![k] = Encoded(e, params)],
               chan' = [chan EXCEPT ![k] = Append(@, FrameOf(k, e, params))],
               UNCHANGED thread
        PROVE  Goal
    <3> HIDE DEF e
    <3>1. /\ Encoded(e, params) \in Encoder /\ Numbered(Encoded(e, params))
          /\ FrameOf(k, e, params) \in Frames
      BY <2>2, Encoding
    <3>2. /\ chan[k] \in Seq(Frames)
          /\ Append(chan[k], FrameOf(k, e, params)) \in Seq(Frames)
          /\ Len(chan[k]) \in Nat
          /\ Len(Append(chan[k], FrameOf(k, e, params))) = Len(chan[k]) + 1
      BY <1>0, <3>1, Back DEF HostValues
    <3>3. Len(Append(chan[k], FrameOf(k, e, params))) <= Room
      BY <2>4, <3>2, ConstantsOK
    <3>4. chan' \in [Captures -> Seq(Frames)] /\ \A j \in Captures : Len(chan'[j]) <= Room
      BY <1>0, <2>4, <3>2, <3>3 DEF HostValues
    <3>5. HostValues'
      BY <1>0, <2>1, <2>4, <3>1, <3>4 DEF HostValues
    <3>6. Encoders'
      BY <1>0, <2>1, <2>4, <3>1, NumberedKeeps DEF HostValues, Encoders
    <3>7. Stored'
      BY <1>0, <2>1, <2>4 DEF Stored, HostValues
    <3> QED
      BY <3>5, <3>6, <3>7
  <2> QED
    BY <1>4, <2>3, <2>4 DEF Grab
<1>5. ASSUME NEW k \in Captures, SendVideo(k) PROVE Goal
  <2>1. /\ chan[k] \in Seq(Frames) /\ chan[k] # <<>> /\ chan' = [chan EXCEPT ![k] = Tail(@)]
        /\ sender[k] = "run"
        /\ UNCHANGED <<size, change, thread, enc, sender, cur, stopping, resizes>>
    BY <1>0, <1>5 DEF SendVideo, HostValues
  <2>2. Tail(chan[k]) \in Seq(Frames) /\ Len(Tail(chan[k])) <= Room
    <3>1. Tail(chan[k]) \in Seq(Frames) /\ Len(Tail(chan[k])) = Len(chan[k]) - 1 /\ Len(chan[k]) \in Nat
      BY <2>1, Front
    <3> QED
      BY <1>0, <3>1, ConstantsOK DEF HostValues
  <2>3. HostValues'
    BY <1>0, <2>1, <2>2 DEF HostValues
  <2>4. Encoders'
    BY <1>0, <2>1, NumberedKeeps DEF Encoders
  <2> QED
    BY <1>0, <2>1, <2>3, <2>4 DEF Stored, HostValues
<1>6. ASSUME StopCapture PROVE Goal
  <2>1. /\ cur # None /\ cur' = None /\ stopping' = TRUE
        /\ sender' = [sender EXCEPT ![cur] = "gone"]
        /\ chan' = [chan EXCEPT ![cur] = <<>>]
        /\ UNCHANGED <<size, change, thread, enc, resizes>>
    BY <1>6 DEF StopCapture
  <2>2. <<>> \in Seq(Frames) /\ Len(<<>>) <= Room /\ cur \in Captures
    BY <1>0, <2>1, EmptySeq, ConstantsOK DEF HostValues
  <2>3. HostValues'
    BY <1>0, <2>1, <2>2 DEF HostValues
  <2>4. Encoders'
    BY <1>0, <2>1, NumberedKeeps DEF Encoders
  <2>5. Stored'
    BY <1>0, <2>1, <2>2, TornIsNone DEF Stored, HostValues
  <2> QED
    BY <2>3, <2>4, <2>5
<1>7. ASSUME NEW k \in Captures, StartCapture(k) PROVE Goal
  <2>1. /\ stopping /\ thread[k] = "none" /\ cur' = k /\ stopping' = FALSE
        /\ thread' = [thread EXCEPT ![k] = "run"] /\ sender' = [sender EXCEPT ![k] = "run"]
        /\ enc' = [enc EXCEPT ![k] = NewEncoder(0, size)]
        /\ change' = change \union {k}
        /\ UNCHANGED <<size, chan, resizes>>
    BY <1>7 DEF StartCapture
  <2>2. cur = None /\ k # None
    BY <1>0, <2>1, TornIsNone DEF HostValues
  <2>3. NewEncoder(0, size) \in Encoder /\ Numbered(NewEncoder(0, size))
    BY <1>0, NewEncoderOK DEF HostValues
  <2>4. HostValues'
    BY <1>0, <2>1, <2>2, <2>3 DEF HostValues
  <2>5. Encoders'
    BY <1>0, <2>1, <2>3, NumberedKeeps DEF HostValues, Encoders
  <2>6. Stored'
    <3> SUFFICES ASSUME NEW j \in Captures
                 PROVE  /\ sender'[j] = "run" <=> j = cur'
                        /\ j # cur' => chan'[j] = <<>>
                        /\ thread'[j] = "none" => sender'[j] = "none"
      BY DEF Stored
    <3>1. CASE j = k
      BY <1>0, <2>1, <3>1 DEF HostValues
    <3>2. CASE j # k
      <4>1. j # cur /\ sender'[j] = sender[j] /\ thread'[j] = thread[j]
        BY <1>0, <2>1, <2>2, <3>2, TornIsNone DEF HostValues
      <4> QED
        BY <1>0, <2>1, <3>2, <4>1 DEF Stored
    <3> QED
      BY <3>1, <3>2
  <2> QED
    BY <2>4, <2>5, <2>6
<1>8. ASSUME UNCHANGED hostVars PROVE Goal
  BY <1>0, <1>8, NumberedKeeps DEF HostValues, Stored, Encoders
<1>9. Client \/ Decoded \/ DecodeFails \/ ShowPage \/ LeavePage => UNCHANGED hostVars
  BY DEF Client, Receive, ReceiveTorn, SetVideoChannel, Decoded, DecodeFails, ShowPage,
         LeavePage
<1> HIDE DEF Goal
<1>10. ASSUME NEW k \in Captures, Capture(k) \/ SendVideo(k) \/ StartCapture(k) PROVE Goal
  BY <1>2, <1>3, <1>4, <1>5, <1>7, <1>10 DEF Capture
<1>11. Goal
  BY <1>1, <1>6, <1>8, <1>9, <1>10 DEF Next
<1> QED
  BY <1>11 DEF Goal

-----------------------------------------------------------------------------
(* The controller.                                                         *)

LEMMA FeedOK ==
    ASSUME NEW f \in Frames, dec \in Decoder, dec.queue <= Lag + 1,
           dec.got => dec.last \in Frames
    PROVE  /\ Feed(f) \in Decoder
           /\ Feed(f).got => Feed(f).last \in Frames
           /\ Feed(f).got /\ ~Feed(f).hole => Feed(f).last = f
           /\ Feed(f).last # dec.last =>
                 /\ Feed(f).last = f
                 /\ Key(f) \/ dec.got
<1>1. /\ dec = [got |-> dec.got, last |-> dec.last, hole |-> dec.hole, queue |-> dec.queue]
      /\ dec.got \in BOOLEAN /\ dec.hole \in BOOLEAN /\ dec.last \in Frames \union {NoFrame}
      /\ dec.queue \in 0..(Lag + 2)
  BY DEF Decoder
<1>2. dec.queue + 1 \in 0..(Lag + 2)
  BY <1>1, ConstantsOK
<1>3. CASE ~Key(f) /\ ~dec.got
  BY <1>3 DEF Feed
<1>4. CASE ~Key(f) /\ dec.got /\ dec.queue > Lag
  <2>1. Feed(f) = [dec EXCEPT !.hole = TRUE]
    BY <1>4 DEF Feed
  <2>2. Feed(f) = [got |-> dec.got, last |-> dec.last, hole |-> TRUE, queue |-> dec.queue]
    BY <1>1, <2>1
  <2> QED
    BY <1>1, <1>4, <2>2 DEF Decoder
<1>5. CASE Key(f)
  <2>1. (dec.hole /\ ~Key(f)) = FALSE
    BY <1>5
  <2>2. Feed(f) = [got |-> TRUE, last |-> f, hole |-> FALSE, queue |-> dec.queue + 1]
    BY <1>5, <2>1 DEF Feed
  <2> QED
    BY <1>2, <1>5, <2>2 DEF Decoder
<1>6. CASE ~Key(f) /\ dec.got /\ ~(dec.queue > Lag)
  <2>1. (dec.hole /\ ~Key(f)) = dec.hole
    BY <1>1, <1>6
  <2>2. Feed(f) = [got |-> TRUE, last |-> f, hole |-> dec.hole, queue |-> dec.queue + 1]
    BY <1>6, <2>1 DEF Feed
  <2> QED
    BY <1>1, <1>2, <1>6, <2>2 DEF Decoder
<1> QED
  BY <1>3, <1>4, <1>5, <1>6

LEMMA ClientStep ==
    ASSUME Inv, Next PROVE ClientValues' /\ Fed'
<1> DEFINE Goal == ClientValues' /\ Fed'
<1> USE DEF ctlVars
<1>0. HostValues /\ ClientValues /\ Fed
  BY DEF Inv
<1>1. /\ NewDecoder \in Decoder /\ ~NewDecoder.got
      /\ wire \in Seq(Items) /\ Len(wire) \in Nat
  BY <1>0, LenProperties, ConstantsOK DEF NewDecoder, Decoder, ClientValues
<1>2. ASSUME NEW f \in Items, Len(wire) < Room, wire' = Append(wire, f),
             UNCHANGED <<ctlVars, errors>>
      PROVE  Goal
  <2>1. Append(wire, f) \in Seq(Items) /\ Len(Append(wire, f)) <= Room
    BY <1>1, <1>2, Back, ConstantsOK
  <2> QED
    BY <1>0, <1>2, <2>1 DEF ClientValues, Fed
<1>3. ASSUME UNCHANGED <<wire, ctlVars, errors>> PROVE Goal
  BY <1>0, <1>3 DEF ClientValues, Fed
<1>4. ASSUME NEW k \in Captures, Capture(k) \/ StartCapture(k) PROVE Goal
  BY <1>3, <1>4 DEF Capture, Grab, Skip, EncoderFails, StartCapture
<1>5. ASSUME NEW k \in Captures, SendVideo(k) PROVE Goal
  <2>1. Head(chan[k]) \in Items
    BY <1>0, <1>5, Front DEF SendVideo, HostValues, Items
  <2> QED
    BY <1>2, <1>5, <2>1 DEF SendVideo
<1>6. ASSUME StopCapture PROVE Goal
  <2>1. cur # None => chan[cur] \in Seq(Items)
    BY <1>0, StreamType
  <2>2. cur # None /\ chan[cur] # <<>> => Head(chan[cur]) \in Items
    BY <2>1, Front
  <2>3. Torn \in Items
    BY DEF Items
  <2> QED
    BY <1>2, <1>3, <1>6, <2>2, <2>3 DEF StopCapture
<1>7. ASSUME ScreenChanges PROVE Goal
  BY <1>3, <1>7 DEF ScreenChanges
<1>8. ASSUME wire # <<>> PROVE Tail(wire) \in Seq(Items) /\ Len(Tail(wire)) <= Room /\ Head(wire) \in Items
  <2>1. Tail(wire) \in Seq(Items) /\ Len(Tail(wire)) = Len(wire) - 1 /\ Head(wire) \in Items
    BY <1>1, <1>8, Front
  <2> QED
    BY <1>0, <1>1, <2>1, ConstantsOK DEF ClientValues
<1>9. ASSUME Receive PROVE Goal
  <2>1. /\ wire # <<>> /\ wire' = Tail(wire) /\ Head(wire) # Torn /\ dec.queue <= Lag + 1
        /\ UNCHANGED <<loop, page, canvases, reg, pic, errors>>
    BY <1>9 DEF Receive
  <2>2. Head(wire) \in Frames
    BY <1>8, <2>1 DEF Items
  <2>3. CASE page # None /\ reg = page /\ dec' = Feed(Head(wire))
    <3>1. dec' \in Decoder /\ (dec'.got => dec'.last \in Frames)
      BY <1>0, <2>1, <2>2, <2>3, FeedOK DEF ClientValues, Fed
    <3> QED
      BY <1>0, <1>8, <2>1, <2>3, <3>1 DEF ClientValues, Fed
  <2>4. CASE dec' = dec
    BY <1>0, <1>8, <2>1, <2>4 DEF ClientValues, Fed
  <2> QED
    BY <1>9, <2>3, <2>4 DEF Receive
<1>10. ASSUME ReceiveTorn PROVE Goal
  BY <1>0, <1>8, <1>10 DEF ReceiveTorn, ClientValues, Fed
<1>11. ASSUME SetVideoChannel PROVE Goal
  <2>1. reg' \in 0..canvases /\ reg' = reg + 1 /\ reg < canvases
        /\ UNCHANGED <<wire, loop, page, canvases, dec, pic, errors>>
    BY <1>0, <1>11 DEF SetVideoChannel, ClientValues
  <2>2. ~dec.got
    BY <1>0, <2>1 DEF Fed, ClientValues
  <2> QED
    BY <1>0, <2>1, <2>2 DEF ClientValues, Fed
<1>12. ASSUME Decoded PROVE Goal
  <2>1. /\ dec.queue > 0 /\ dec' = [dec EXCEPT !.queue = @ - 1] /\ pic' = TRUE
        /\ UNCHANGED <<wire, loop, page, canvases, reg, errors>>
    BY <1>12 DEF Decoded
  <2>2. dec' \in Decoder /\ dec'.got = dec.got /\ dec'.last = dec.last
    <3>1. /\ dec = [got |-> dec.got, last |-> dec.last, hole |-> dec.hole, queue |-> dec.queue]
          /\ dec.got \in BOOLEAN /\ dec.hole \in BOOLEAN
          /\ dec.last \in Frames \union {NoFrame} /\ dec.queue \in 0..(Lag + 2)
      BY <1>0 DEF ClientValues, Decoder
    <3>2. dec' = [got |-> dec.got, last |-> dec.last, hole |-> dec.hole, queue |-> dec.queue - 1]
      BY <2>1, <3>1
    <3>3. dec.queue - 1 \in 0..(Lag + 2)
      BY <2>1, <3>1, ConstantsOK
    <3> QED
      BY <3>1, <3>2, <3>3 DEF Decoder
  <2> QED
    BY <1>0, <2>1, <2>2 DEF ClientValues, Fed
<1>13. ASSUME DecodeFails PROVE Goal
  <2>1. /\ errors' = errors + 1 /\ dec' = NewDecoder /\ canvases + errors < MaxDecoders
        /\ UNCHANGED <<wire, loop, page, canvases, reg, pic>>
    BY <1>13 DEF DecodeFails
  <2>2. errors' \in Nat /\ canvases + errors' <= MaxDecoders
    BY <1>0, <2>1, ConstantsOK DEF ClientValues
  <2> QED
    BY <1>0, <1>1, <2>1, <2>2 DEF ClientValues, Fed
<1>14. ASSUME ShowPage PROVE Goal
  <2>1. /\ canvases' = canvases + 1 /\ page' = canvases + 1 /\ dec' = NewDecoder /\ pic' = FALSE
        /\ canvases + errors < MaxDecoders /\ UNCHANGED <<wire, loop, reg, errors>>
    BY <1>14 DEF ShowPage
  <2>2. canvases' \in Nat /\ canvases' + errors <= MaxDecoders /\ reg \in 0..canvases'
    BY <1>0, <2>1, ConstantsOK DEF ClientValues
  <2> QED
    BY <1>0, <1>1, <2>1, <2>2 DEF ClientValues, Fed
<1>15. ASSUME LeavePage PROVE Goal
  BY <1>0, <1>1, <1>15 DEF LeavePage, ClientValues, Fed
<1> HIDE DEF Goal
<1>16. Goal
  BY <1>4, <1>5, <1>6, <1>7, <1>9, <1>10, <1>11, <1>12, <1>13, <1>14, <1>15 DEF Next, Client
<1> QED
  BY <1>16 DEF Goal

-----------------------------------------------------------------------------
(* The order of the frames.                                                *)

\* The frames under way stay the same, and so does what comes next, or a key frame does.
LEMMA SameStream ==
    ASSUME InOrder, Stream' = Stream,
           loop' = "run" => loop = "run",
           dec'.got /\ ~dec'.hole => dec.got /\ ~dec.hole /\ dec'.last = dec.last,
           cur' # None /\ thread'[cur'] = "run" =>
              \/ enc'[cur'].next = 0
              \/ cur' = cur /\ thread[cur] = "run" /\ enc'[cur'] = enc[cur]
    PROVE  InOrder'
<1>1. Complete(Stream)' /\ Chained(Stream)'
  BY DEF InOrder, Complete, Chained, Linked, Before, Key
<1>2. (Stream # <<>> => Goes(Stream[Len(Stream)]))'
  BY DEF InOrder, Goes, Continued
<1>3. Attached'
  <2> SUFFICES ASSUME loop' = "run", dec'.got, ~dec'.hole
               PROVE  (IF Stream = <<>> THEN Goes(dec.last) ELSE Linked(dec.last, Head(Stream)))'
    BY DEF Attached
  <2>1. loop = "run" /\ dec.got /\ ~dec.hole /\ dec'.last = dec.last
    OBVIOUS
  <2>2. CASE Stream = <<>>
    BY <2>1, <2>2 DEF InOrder, Attached, Goes, Continued
  <2>3. CASE Stream # <<>>
    <3>1. Linked(dec.last, Head(Stream))
      BY <2>1, <2>3 DEF InOrder, Attached
    <3> QED
      BY <2>1, <2>3, <3>1 DEF Linked, Before, Key
  <2> QED
    BY <2>2, <2>3
<1> QED
  BY <1>1, <1>2, <1>3 DEF InOrder

\* The capture stops and leaves s of the frames under way.
LEMMA CutStream ==
    ASSUME InOrder, NEW s, Stream' = s, Complete(s), Chained(s), cur' = None,
           s # <<>> => Head(s) = Torn \/ (Stream # <<>> /\ Head(s) = Head(Stream)),
           UNCHANGED <<loop, dec>>
    PROVE  InOrder'
<1>1. Complete(Stream)' /\ Chained(Stream)'
  BY DEF Complete, Chained, Linked, Before, Key
<1>2. (Stream # <<>> => Goes(Stream[Len(Stream)]))'
  BY DEF Goes
<1>3. Attached'
  <2> SUFFICES ASSUME loop' = "run", dec'.got, ~dec'.hole
               PROVE  (IF Stream = <<>> THEN Goes(dec.last) ELSE Linked(dec.last, Head(Stream)))'
    BY DEF Attached
  <2>1. CASE s = <<>>
    BY <2>1 DEF Goes
  <2>2. CASE s # <<>>
    <3>1. Linked(dec.last, Head(s))
      BY <2>2 DEF InOrder, Attached, Linked
    <3> QED
      BY <2>2, <3>1 DEF Linked, Before, Key
  <2> QED
    BY <2>1, <2>2
<1> QED
  BY <1>1, <1>2, <1>3 DEF InOrder

\* A frame more, the one that goes on.
LEMMA LongerStream ==
    ASSUME InOrder, Fed, NEW f \in Frames, Stream \in Seq(Items),
           Stream' = Append(Stream, f), Key(f) => f.params,
           \A a : Goes(a) => Linked(a, f),
           Continued(f, enc'[cur']) /\ f.cap = cur',
           UNCHANGED <<loop, dec>>
    PROVE  InOrder'
<1>1. /\ Stream' \in Seq(Items) /\ Stream' # <<>> /\ f \in Items
      /\ Len(Stream) \in Nat /\ Len(Stream') = Len(Stream) + 1
      /\ Stream'[Len(Stream')] = f
      /\ \A i \in 1..Len(Stream) : Stream'[i] = Stream[i]
  BY Back DEF Items
<1>2. Stream # <<>> => Linked(Stream[Len(Stream)], f)
  BY DEF InOrder
<1>3. Complete(Append(Stream, f)) /\ Chained(Append(Stream, f))
  BY <1>1, <1>2, Longer DEF InOrder
<1>4. Complete(Stream)' /\ Chained(Stream)'
  BY <1>3 DEF Complete, Chained, Linked, Before, Key
<1>5. (Stream # <<>> => Goes(Stream[Len(Stream)]))'
  BY <1>1 DEF Goes, Continued
<1>6. Attached'
  <2> SUFFICES ASSUME loop' = "run", dec'.got, ~dec'.hole
               PROVE  Linked(dec.last, Head(Stream'))
    BY <1>1 DEF Attached, Linked, Before, Key
  <2>1. CASE Stream = <<>>
    <3>1. Len(Stream) = 0
      BY <2>1, EmptySeq
    <3>2. Head(Stream') = f
      BY <1>1, <3>1, Front
    <3> QED
      BY <2>1, <3>2 DEF InOrder, Attached
  <2>2. CASE Stream # <<>>
    <3>1. Head(Stream') = Stream'[1] /\ Head(Stream) = Stream[1] /\ 1 \in 1..Len(Stream)
      BY <1>1, <2>2, Front
    <3>2. Head(Stream') = Head(Stream)
      BY <1>1, <3>1
    <3> QED
      BY <2>2, <3>2 DEF InOrder, Attached
  <2> QED
    BY <2>1, <2>2
<1> QED
  BY <1>4, <1>5, <1>6 DEF InOrder

\* The first frame leaves the stream, into the decoder when it has begun.
LEMMA ShorterStream ==
    ASSUME InOrder, Stream \in Seq(Items), Stream # <<>>, Stream' = Tail(Stream),
           UNCHANGED hostVars,
           loop' = "run" /\ dec'.got /\ ~dec'.hole => dec'.last = Head(Stream)
    PROVE  InOrder'
<1>1. /\ Complete(Tail(Stream)) /\ Chained(Tail(Stream))
      /\ Tail(Stream) # <<>> => /\ Linked(Head(Stream), Head(Tail(Stream)))
                                /\ Tail(Stream)[Len(Tail(Stream))] = Stream[Len(Stream)]
      /\ Tail(Stream) = <<>> => Head(Stream) = Stream[Len(Stream)]
  BY Rest DEF InOrder
<1>2. Complete(Stream)' /\ Chained(Stream)'
  BY <1>1 DEF Complete, Chained, Linked, Before, Key
<1>3. (Stream # <<>> => Goes(Stream[Len(Stream)]))'
  BY <1>1 DEF InOrder, Goes, Continued, hostVars
<1>4. Attached'
  <2> SUFFICES ASSUME loop' = "run", dec'.got, ~dec'.hole
               PROVE  (IF Stream = <<>> THEN Goes(dec.last) ELSE Linked(dec.last, Head(Stream)))'
    BY DEF Attached
  <2>1. dec'.last = Head(Stream)
    OBVIOUS
  <2>2. CASE Tail(Stream) = <<>>
    BY <1>1, <2>1, <2>2 DEF InOrder, Goes, Continued, hostVars
  <2>3. CASE Tail(Stream) # <<>>
    BY <1>1, <2>1, <2>3 DEF Linked, Before, Key
  <2> QED
    BY <2>2, <2>3
<1> QED
  BY <1>2, <1>3, <1>4 DEF InOrder

LEMMA StreamStep ==
    ASSUME Inv, Next PROVE InOrder'
<1> USE DEF hostVars, ctlVars
<1>0. HostValues /\ ClientValues /\ Stored /\ Encoders /\ Fed /\ InOrder
  BY DEF Inv
<1>1. /\ wire \in Seq(Items) /\ Stream \in Seq(Items)
      /\ cur # None => chan[cur] \in Seq(Items) /\ chan[cur] \in Seq(Frames) /\ cur \in Captures
  BY <1>0, StreamType DEF ClientValues
<1>2. ASSUME UNCHANGED <<wire, chan, cur>> PROVE Stream' = Stream
  BY <1>2 DEF Stream
<1>3. ASSUME ScreenChanges PROVE InOrder'
  BY <1>0, <1>2, <1>3, SameStream DEF ScreenChanges
<1>4. ASSUME NEW k \in Captures, EncoderFails(k) PROVE InOrder'
  <2>1. /\ thread' = [thread EXCEPT ![k] = "done"] /\ enc' = [enc EXCEPT ![k] = NoEncoder]
        /\ UNCHANGED <<wire, chan, cur, loop, dec>>
    BY <1>4 DEF EncoderFails
  <2>2. cur' # None /\ thread'[cur'] = "run" => thread[cur] = "run" /\ enc'[cur'] = enc[cur]
    BY <1>0, <1>1, <2>1 DEF HostValues
  <2> QED
    BY <1>0, <1>2, <2>1, <2>2, SameStream
<1>5. ASSUME NEW k \in Captures, Skip(k) PROVE InOrder'
  <2>1. /\ thread[k] = "run" /\ (enc' = enc \/ enc' = [enc EXCEPT ![k] = EncoderFor(k)])
        /\ UNCHANGED <<thread, wire, chan, cur, loop, dec>>
    BY <1>5 DEF Skip
  <2>2. EncoderFor(k) = enc[k] \/ EncoderFor(k).next = 0
    BY <1>0, <2>1, EncoderForOK
  <2>3. cur' # None /\ thread'[cur'] = "run" =>
           enc'[cur'].next = 0 \/ (cur' = cur /\ thread[cur] = "run" /\ enc'[cur'] = enc[cur])
    BY <1>0, <1>1, <2>1, <2>2 DEF HostValues
  <2> QED
    BY <1>0, <1>2, <2>1, <2>3, SameStream
<1>6. ASSUME NEW k \in Captures, Grab(k) PROVE InOrder'
  <2> DEFINE e == EncoderFor(k)
  <2>1. /\ thread[k] = "run" /\ UNCHANGED <<size, sender, cur, wire, loop, dec>>
    BY <1>6 DEF Grab
  <2>2. /\ e \in Encoder /\ Numbered(e) /\ e.size = Target(size)
        /\ resizes \in 0..MaxResizes
        /\ e = enc[k] \/ e.next = 0
    BY <1>0, <2>1, EncoderForOK DEF HostValues
  <2>3. CASE /\ sender[k] = "gone" /\ UNCHANGED chan
             /\ thread' = [thread EXCEPT ![k] = "done"] /\ enc' = [enc EXCEPT ![k] = NoEncoder]
    <3>1. cur' # None /\ thread'[cur'] = "run" => thread[cur] = "run" /\ enc'[cur'] = enc[cur]
      BY <1>0, <1>1, <2>1, <2>3 DEF HostValues
    <3> QED
      BY <1>0, <1>2, <2>1, <2>3, <3>1, SameStream
  <2>4. ASSUME NEW params \in Outputs(e), sender[k] = "run",
               enc' = [enc EXCEPT ![k] = Encoded(e, params)],
               chan' = [chan EXCEPT ![k] = Append(@, FrameOf(k, e, params))],
               UNCHANGED thread
        PROVE  InOrder'
    <3> DEFINE f == FrameOf(k, e, params)
    <3> HIDE DEF e
    <3>1. /\ f \in Frames /\ (Key(f) => f.params) /\ Continued(f, Encoded(e, params)) /\ f.cap = k
          /\ \A a : Continued(a, e) /\ (e.next = 0 \/ a.cap = k) => Linked(a, f)
      BY <2>2, Encoding
    <3> HIDE DEF f
    <3>2. k = cur /\ cur # None
      BY <1>0, <2>4, TornIsNone DEF Stored
    <3>3. Stream' = Append(Stream, f)
      <4>1. Stream = wire \o chan[k] /\ Stream' = wire \o Append(chan[k], f) /\ f \in Items
        BY <1>0, <2>1, <2>4, <3>1, <3>2 DEF Stream, HostValues, f, Items
      <4> QED
        BY <1>1, <3>2, <4>1, Regroup
    <3>4. ASSUME NEW a, Goes(a) PROVE Linked(a, f)
      <4>1. CASE a = Torn
        BY <4>1 DEF Linked
      <4>2. CASE a # Torn
        <5>1. Continued(a, enc[k]) /\ (enc[k].next = 0 \/ a.cap = k)
          BY <2>1, <3>2, <3>4, <4>2 DEF Goes
        <5>2. Continued(a, e) /\ (e.next = 0 \/ a.cap = k)
          BY <2>2, <5>1 DEF Continued
        <5> QED
          BY <3>1, <5>2
      <4> QED
        BY <4>1, <4>2
    <3>5. enc'[cur] = Encoded(e, params)
      BY <1>0, <2>4, <3>2 DEF HostValues
    <3> QED
      BY <1>0, <1>1, <2>1, <3>1, <3>2, <3>3, <3>4, <3>5, LongerStream
  <2> HIDE DEF e
  <2> QED
    BY <1>6, <2>3, <2>4 DEF Grab, e
<1>7. ASSUME NEW k \in Captures, SendVideo(k) PROVE InOrder'
  <2>1. /\ sender[k] = "run" /\ chan[k] # <<>> /\ wire' = Append(wire, Head(chan[k]))
        /\ chan' = [chan EXCEPT ![k] = Tail(@)]
        /\ UNCHANGED <<thread, enc, cur, loop, dec>>
    BY <1>7 DEF SendVideo
  <2>2. k = cur /\ cur # None
    BY <1>0, <2>1, TornIsNone DEF Stored
  <2>3. Stream' = Stream
    <3>1. Stream = wire \o chan[k] /\ Stream' = Append(wire, Head(chan[k])) \o Tail(chan[k])
      BY <1>0, <2>1, <2>2 DEF Stream, HostValues
    <3> QED
      BY <1>1, <2>1, <2>2, <3>1, Regroup
  <2> QED
    BY <1>0, <2>1, <2>3, SameStream
<1>8. ASSUME StopCapture PROVE InOrder'
  <2>1. cur # None /\ cur' = None /\ Stream = wire \o chan[cur] /\ Stream' = wire'
        /\ UNCHANGED <<loop, dec>>
    BY <1>8 DEF StopCapture, Stream
  <2>2. /\ Complete(wire) /\ Chained(wire)
        /\ wire # <<>> => Stream # <<>> /\ Head(wire) = Head(Stream)
    <3>1. Complete(wire) /\ Chained(wire)
      BY <1>0, <1>1, <2>1, First DEF InOrder
    <3> QED
      BY <1>1, <2>1, <3>1, Regroup
  <2>3. CASE wire' = wire
    BY <1>0, <2>1, <2>2, <2>3, CutStream
  <2>4. ASSUME NEW f \in Items, wire' = Append(wire, f),
               Complete(Append(wire, f)), Chained(Append(wire, f)),
               wire = <<>> => f = Torn \/ (Stream # <<>> /\ f = Head(Stream))
        PROVE  InOrder'
    <3>1. /\ Append(wire, f) \in Seq(Items) /\ Append(wire, f) # <<>>
          /\ Len(wire) \in Nat
          /\ Append(wire, f)[Len(wire) + 1] = f
          /\ \A i \in 1..Len(wire) : Append(wire, f)[i] = wire[i]
      BY <1>1, Back
    <3>2. Head(Append(wire, f)) = Append(wire, f)[1]
      BY <3>1, Front
    <3>3. CASE wire = <<>>
      <4>1. Len(wire) = 0
        BY <3>3, EmptySeq
      <4>2. Head(Append(wire, f)) = f
        BY <3>1, <3>2, <4>1
      <4> QED
        BY <1>0, <2>1, <2>4, <3>3, <4>2, CutStream
    <3>4. CASE wire # <<>>
      <4>1. Head(wire) = wire[1] /\ 1 \in 1..Len(wire)
        BY <1>1, <3>4, Front
      <4>2. Head(Append(wire, f)) = Head(wire)
        BY <3>1, <3>2, <4>1
      <4> QED
        BY <1>0, <2>1, <2>2, <2>4, <3>4, <4>2, CutStream
    <3> QED
      BY <3>3, <3>4
  <2>5. ASSUME chan[cur] # <<>>, wire' = Append(wire, Head(chan[cur])) PROVE InOrder'
    <3>1. /\ Head(chan[cur]) \in Items /\ Tail(chan[cur]) \in Seq(Items)
          /\ Append(wire, Head(chan[cur])) \in Seq(Items)
          /\ Stream = Append(wire, Head(chan[cur])) \o Tail(chan[cur])
      <4>1. Head(chan[cur]) \in Items /\ Tail(chan[cur]) \in Seq(Items)
        BY <1>1, <2>1, <2>5, Front
      <4>2. Append(wire, Head(chan[cur])) \in Seq(Items)
        BY <1>1, <4>1, Back
      <4>3. Stream = Append(wire, Head(chan[cur])) \o Tail(chan[cur])
        BY <1>1, <2>1, <2>5, Regroup
      <4> QED
        BY <4>1, <4>2, <4>3
    <3>2. Complete(Append(wire, Head(chan[cur]))) /\ Chained(Append(wire, Head(chan[cur])))
      BY <1>0, <3>1, First DEF InOrder
    <3>3. wire = <<>> => Stream # <<>> /\ Head(chan[cur]) = Head(Stream)
      <4>1. wire = <<>> => Stream = chan[cur]
        BY <1>1, <2>1, ConcatEmptySeq
      <4> QED
        BY <2>5, <4>1
    <3> QED
      BY <2>4, <2>5, <3>1, <3>2, <3>3
  <2>6. ASSUME wire' = Append(wire, Torn) PROVE InOrder'
    <3>1. Torn \in Items /\ ~Key(Torn)
      BY TornIsNone DEF Items
    <3>2. wire # <<>> => Linked(wire[Len(wire)], Torn)
      BY DEF Linked
    <3>3. Complete(Append(wire, Torn)) /\ Chained(Append(wire, Torn))
      BY <1>1, <2>2, <3>1, <3>2, Longer
    <3> QED
      BY <2>4, <2>6, <3>1, <3>3
  <2> QED
    BY <1>8, <2>3, <2>5, <2>6 DEF StopCapture
<1>9. ASSUME NEW k \in Captures, StartCapture(k) PROVE InOrder'
  <2>1. /\ stopping /\ cur' = k /\ enc' = [enc EXCEPT ![k] = NewEncoder(0, size)]
        /\ UNCHANGED <<chan, wire, loop, dec>>
    BY <1>9 DEF StartCapture
  <2>2. cur = None /\ k # None /\ size \in Sizes
    BY <1>0, <2>1, TornIsNone DEF HostValues
  <2>3. enc'[cur'].next = 0
    BY <1>0, <2>1, <2>2, NewEncoderOK DEF HostValues
  <2>4. Stream' = Stream
    <3>1. chan[k] = <<>>
      BY <1>0, <2>2 DEF Stored
    <3>2. Stream = wire /\ Stream' = wire \o <<>>
      BY <2>1, <2>2, <3>1 DEF Stream
    <3> QED
      BY <1>1, <3>2, ConcatEmptySeq
  <2> QED
    BY <1>0, <2>1, <2>3, <2>4, SameStream
<1>10. ASSUME wire # <<>>, wire' = Tail(wire), UNCHANGED hostVars
       PROVE  /\ Stream # <<>> /\ Stream' = Tail(Stream) /\ Head(Stream) = Head(wire)
  <2>1. CASE cur = None
    BY <1>10, <2>1 DEF Stream
  <2>2. CASE cur # None
    BY <1>1, <1>10, <2>2, Regroup DEF Stream
  <2> QED
    BY <2>1, <2>2
<1>11. ASSUME Receive PROVE InOrder'
  <2>1. /\ wire # <<>> /\ wire' = Tail(wire) /\ Head(wire) # Torn /\ dec.queue <= Lag + 1
        /\ dec' = IF page # None /\ reg = page THEN Feed(Head(wire)) ELSE dec
        /\ UNCHANGED hostVars
    BY <1>11 DEF Receive
  <2>2. /\ Head(wire) \in Frames /\ dec \in Decoder /\ (dec.got => dec.last \in Frames)
    <3>1. Head(wire) \in Items
      BY <1>1, <2>1, Front
    <3> QED
      BY <1>0, <2>1, <3>1 DEF Items, ClientValues, Fed
  <2>3. dec'.got /\ ~dec'.hole => dec'.last = Head(wire)
    BY <1>0, <2>1, <2>2, FeedOK DEF Fed
  <2> QED
    BY <1>0, <1>1, <1>10, <2>1, <2>3, ShorterStream
<1>12. ASSUME ReceiveTorn PROVE InOrder'
  <2>1. wire # <<>> /\ wire' = Tail(wire) /\ loop' = "done" /\ UNCHANGED hostVars
    BY <1>12 DEF ReceiveTorn
  <2> QED
    BY <1>0, <1>1, <1>10, <2>1, ShorterStream
<1>13. ASSUME SetVideoChannel \/ Decoded \/ DecodeFails \/ ShowPage \/ LeavePage PROVE InOrder'
  <2>1. UNCHANGED <<hostVars, wire, loop>>
    BY <1>13 DEF SetVideoChannel, Decoded, DecodeFails, ShowPage, LeavePage
  <2>2. dec'.got /\ ~dec'.hole => dec.got /\ ~dec.hole /\ dec'.last = dec.last
    <3>1. dec' = dec \/ dec' = [dec EXCEPT !.queue = @ - 1] \/ dec' = NewDecoder
      BY <1>13 DEF SetVideoChannel, Decoded, DecodeFails, ShowPage, LeavePage
    <3>2. ~NewDecoder.got
      BY DEF NewDecoder
    <3>3. dec = [got |-> dec.got, last |-> dec.last, hole |-> dec.hole, queue |-> dec.queue]
      BY <1>0 DEF ClientValues, Decoder
    <3> QED
      BY <3>1, <3>2, <3>3
  <2> QED
    BY <1>0, <1>2, <2>1, <2>2, SameStream
<1> QED
  BY <1>3, <1>4, <1>5, <1>6, <1>7, <1>8, <1>9, <1>11, <1>12, <1>13 DEF Next, Capture, Client

-----------------------------------------------------------------------------
(* The theorems.                                                           *)

LEMMA InvInit ==
    Init => Inv
<1> SUFFICES ASSUME Init PROVE Inv
  OBVIOUS
<1>1. /\ size \in Sizes /\ resizes = 0 /\ cur = None /\ stopping = TRUE
      /\ wire = <<>> /\ enc = [k \in Captures |-> NoEncoder]
      /\ thread = [k \in Captures |-> "none"] /\ sender = [k \in Captures |-> "none"]
      /\ chan = [k \in Captures |-> <<>>] /\ change = {}
  BY DEF Init
<1>2. NoEncoder \in Encoder /\ Numbered(NoEncoder)
  <2>1. 0 \in 0..(Gop - 1)
    BY ConstantsOK
  <2> QED
    BY <1>1, <2>1 DEF NoEncoder, Encoder, Pictures, Numbered
<1>3. <<>> \in Seq(Frames) /\ <<>> \in Seq(Items) /\ Len(<<>>) = 0 /\ Len(<<>>) <= Room
  BY EmptySeq, ConstantsOK
<1>4. HostValues
  <2>1. 0 \in 0..MaxResizes
    BY ConstantsOK
  <2> QED
    BY <1>1, <1>2, <1>3, <2>1 DEF HostValues
<1>5. ClientValues /\ Fed
  <2>1. NewDecoder \in Decoder /\ ~NewDecoder.got
    BY ConstantsOK DEF NewDecoder, Decoder
  <2>2. dec = NewDecoder /\ loop = "run" /\ canvases = 0 /\ errors = 0 /\ page = None /\ reg = None
        /\ pic = FALSE
    BY DEF Init
  <2>3. 0 <= MaxDecoders
    BY ConstantsOK
  <2> QED
    <3>1. /\ canvases \in Nat /\ errors \in Nat /\ canvases + errors <= MaxDecoders
          /\ page \in {None, canvases} /\ reg \in 0..canvases
      BY <2>2, <2>3 DEF None
    <3> QED
      BY <1>1, <1>3, <2>1, <2>2, <3>1 DEF ClientValues, Fed
<1>6. Stored
  BY <1>1, TornIsNone DEF Stored
<1>7. Encoders
  BY <1>1, <1>2 DEF Encoders
<1>8. InOrder
  <2>1. Stream = <<>> /\ Len(Stream) = 0
    BY <1>1, <1>3 DEF Stream
  <2>2. Complete(Stream) /\ Chained(Stream)
    BY <2>1 DEF Complete, Chained
  <2>3. Attached
    BY DEF Init, NewDecoder, Attached
  <2> QED
    BY <2>1, <2>2, <2>3 DEF InOrder
<1> QED
  BY <1>4, <1>5, <1>6, <1>7, <1>8 DEF Inv

LEMMA InvStep ==
    Inv /\ [Next]_vars => Inv'
<1> SUFFICES ASSUME Inv, [Next]_vars PROVE Inv'
  OBVIOUS
<1>1. CASE Next
  BY <1>1, HostStep, ClientStep, StreamStep DEF Inv
<1>2. CASE UNCHANGED vars
  <2>1. InOrder'
    <3>1. UNCHANGED <<cur, wire, chan, loop, dec, thread, enc>> /\ Stream' = Stream /\ InOrder
      BY <1>2 DEF vars, hostVars, ctlVars, Stream, Inv
    <3> QED
      BY <3>1, SameStream
  <2>2. HostValues' /\ Stored' /\ Encoders'
    BY <1>2, NumberedKeeps DEF vars, hostVars, Inv, HostValues, Stored, Encoders
  <2>3. ClientValues' /\ Fed'
    BY <1>2 DEF vars, ctlVars, Inv, ClientValues, Fed
  <2> QED
    BY <2>1, <2>2, <2>3 DEF Inv
<1> QED
  BY <1>1, <1>2

LEMMA AlwaysInv == Spec => []Inv
BY InvInit, InvStep, PTL DEF Spec

LEMMA InvTyped == Inv => TypeOK
<1> SUFFICES ASSUME Inv PROVE TypeOK
  OBVIOUS
<1>1. HostValues /\ ClientValues /\ Encoders
  BY DEF Inv
<1>2. ASSUME NEW k \in Captures
      PROVE  /\ enc[k].number \in 0..(MaxResizes + 1) /\ enc[k].next \in 0..(Gop - 1)
             /\ enc[k].size \in Sizes \union {Target(s) : s \in Sizes} \union {<<0, 0>>}
             /\ Len(chan[k]) <= Room
  <2>1. /\ enc[k].number \in Nat /\ enc[k].number <= resizes /\ resizes \in 0..MaxResizes
        /\ enc[k].next \in 0..(Gop - 1) /\ enc[k].size \in Pictures /\ Len(chan[k]) <= Room
    BY <1>1 DEF HostValues, Encoders, Encoder, Numbered
  <2>2. enc[k].number \in 0..(MaxResizes + 1)
    BY <2>1, ConstantsOK
  <2> QED
    BY <2>1, <2>2 DEF Pictures
<1>3. Len(wire) <= Room /\ \A i \in 1..Len(wire) : wire[i] \in Frames \union {Torn}
  BY <1>1, ElementOfSeq DEF ClientValues, Items
<1>4. page \in 0..MaxDecoders /\ canvases \in 0..MaxDecoders /\ errors \in 0..MaxDecoders
  BY <1>1, ConstantsOK DEF ClientValues, None
<1> QED
  BY <1>1, <1>2, <1>3, <1>4 DEF TypeOK, HostValues, ClientValues, Decoder

\* The variables of host and controller keep their types: the channel and the connection
\* never hold more than their room, no encoder gets a number or a size that the changes of
\* the screen do not explain, and a decoder is never asked to hold more than it accepts
\* (capture_loop, the send task, onmessage), for any sizes, limit, rate, room and lag.
THEOREM TypeCorrect == Spec => []TypeOK
BY AlwaysInv, InvTyped, PTL

\* What a decoder gets builds on the frame it got before, or is a key frame with its
\* parameter sets, or follows a hole the page tore itself: through restarts of the capture
\* in the middle of a frame, new encoders for a new size, encoders and decoders that
\* fail, and pages that come and go (capture_loop, push_nal, stop_capture, start_capture,
\* desktop_set_video_channel, onmessage), for any number of each.
THEOREM FramesInOrder == Spec => FedInOrder
<1> DEFINE Fits == dec'.last # dec.last /\ dec'.got =>
                      IF Key(dec'.last) THEN dec'.last.params
                      ELSE dec.hole \/ Before(dec.last, dec'.last)
<1>1. ASSUME Inv, Next, dec'.last # dec.last, dec'.got PROVE Receive
  <2>1. CASE dec' = dec \/ dec' = NewDecoder \/ dec' = [dec EXCEPT !.queue = @ - 1]
    <3>1. dec = [got |-> dec.got, last |-> dec.last, hole |-> dec.hole, queue |-> dec.queue]
      BY <1>1 DEF Inv, ClientValues, Decoder
    <3>2. ~NewDecoder.got
      BY DEF NewDecoder
    <3> QED
      BY <1>1, <2>1, <3>1, <3>2
  <2> USE DEF ctlVars
  <2>2. ASSUME NEW k \in Captures, Capture(k) \/ SendVideo(k) \/ StartCapture(k) PROVE dec' = dec
    BY <2>2 DEF Capture, Grab, Skip, EncoderFails, SendVideo, StartCapture
  <2>3. ScreenChanges \/ StopCapture \/ ReceiveTorn \/ SetVideoChannel => dec' = dec
    BY DEF ScreenChanges, StopCapture, ReceiveTorn, SetVideoChannel
  <2>4. Decoded => dec' = [dec EXCEPT !.queue = @ - 1]
    BY DEF Decoded
  <2>5. DecodeFails \/ ShowPage \/ LeavePage => dec' = NewDecoder
    BY DEF DecodeFails, ShowPage, LeavePage
  <2> QED
    BY <1>1, <2>1, <2>2, <2>3, <2>4, <2>5 DEF Next, Client
<1>2. ASSUME Inv, Receive, dec'.last # dec.last, dec'.got PROVE Fits
  <2> DEFINE f == Head(wire)
  <2>1. /\ HostValues /\ ClientValues /\ Fed /\ InOrder
        /\ wire # <<>> /\ f # Torn /\ loop = "run" /\ dec.queue <= Lag + 1 /\ dec' = Feed(f)
    BY <1>2 DEF Inv, Receive
  <2>2. wire \in Seq(Items) /\ Stream \in Seq(Items)
        /\ (cur # None => chan[cur] \in Seq(Items))
    BY <2>1, StreamType DEF ClientValues
  <2>3. f \in Items
    BY <2>1, <2>2, Front
  <2> HIDE DEF f
  <2>4. f \in Frames
    BY <2>1, <2>3 DEF Items
  <2>5. dec'.last = f /\ (Key(f) \/ dec.got) /\ (dec.got => dec.last \in Frames)
    BY <1>2, <2>1, <2>4, FeedOK DEF ClientValues, Fed
  <2>6. Stream # <<>> /\ Head(Stream) = f
    BY <2>1, <2>2, Regroup DEF Stream, f
  <2>7. Stream[1] = f /\ 1 \in 1..Len(Stream)
    BY <2>2, <2>6, Front
  <2>8. Key(f) => f.params
    BY <2>1, <2>7 DEF InOrder, Complete
  <2>9. ~Key(f) /\ ~dec.hole => Before(dec.last, f)
    <3>1. ~Key(f) /\ ~dec.hole => Linked(dec.last, f)
      BY <2>1, <2>5, <2>6 DEF InOrder, Attached
    <3> QED
      BY <2>4, <2>5, <3>1, TornIsNone DEF Linked
  <2> QED
    BY <2>5, <2>8, <2>9
<1>3. Inv /\ [Next]_vars => [Fits]_vars
  BY <1>1, <1>2
<1> HIDE DEF Fits
<1>4. Spec => [][Fits]_vars
  BY <1>3, AlwaysInv, PTL DEF Spec
<1> QED
  BY <1>4 DEF Fits, FedInOrder
=============================================================================
