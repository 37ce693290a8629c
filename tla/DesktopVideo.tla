---------------------------- MODULE DesktopVideo ----------------------------
(***************************************************************************)
(* The picture of a desktop session, from the host's screen to the         *)
(* controller's canvas.  On the host a capture thread grabs the screen     *)
(* when it changes, encodes and puts the frames into a channel, a task     *)
(* takes them out and sends each on a stream of its own; changed settings  *)
(* stop that pair and start a new one.  On the controller the receive loop *)
(* hands the frames to the channel that the canvas registered, a canvas    *)
(* lives as long as its page is shown, its decoder starts at a key frame.  *)
(*                                                                         *)
(* A frame is a position in the group of pictures of an encoder, a screen  *)
(* is its size.  The session is that of DesktopSession, it stays shared.   *)
(***************************************************************************)
EXTENDS Integers, Sequences, FiniteSets

CONSTANTS
    Sizes,         \* the sizes the screen can have, pairs of width and height
    Limit,         \* the largest size that is configured for the picture, 0 for any
    Gop,           \* frames from one key frame to the next, fps in the code
    Room,          \* frames that the channel and the connection hold
    Lag,           \* frames that may wait to be decoded before delta frames are dropped
    MaxCaptures,   \* bound: times the capture is started
    MaxResizes,    \* bound: changes of the screen size
    MaxDecoders    \* bound: times the page is shown or a decoder fails

ASSUME ConstantsOK ==
    /\ Sizes \subseteq (Nat \X Nat) /\ Sizes # {} /\ Limit \in Nat \X Nat
    /\ {Gop, Room, MaxCaptures, MaxDecoders} \subseteq Nat \ {0}
    /\ {Lag, MaxResizes} \subseteq Nat

Captures == 1..MaxCaptures
None     == 0
Frames   == [cap : Captures, enc : 0..(MaxResizes + 1), pos : 0..(Gop - 1), params : BOOLEAN]
NoFrame  == [cap |-> None, enc |-> 0, pos |-> 0, params |-> FALSE]
Torn     == [NoFrame EXCEPT !.pos = 1]   \* a stream that ends early
Key(f)   == f.pos = 0

\* f is what the encoder put out right before g.
Before(f, g) == f.cap = g.cap /\ f.enc = g.enc /\ g.pos = (f.pos + 1) % Gop

NoEncoder == [number |-> 0, size |-> <<0, 0>>, next |-> 0, fresh |-> TRUE, params |-> FALSE]

VARIABLES
    size,      \* the size of the screen
    change,    \* captures that have not seen the last change of the screen
    thread,    \* capture -> where its thread is
    enc,       \* capture -> its encoder: number, size, position of the next frame, whether
               \* it has put out nothing yet, whether the parameter sets are kept
    chan,      \* capture -> frames put into the channel to its send task and not sent yet
    sender,    \* capture -> its send task
    cur,       \* the capture that is stored in the state
    stopping,  \* a command has stopped the capture and is to start it again
    wire,      \* frames that reached the controller, not read yet
    loop,      \* the controller's receive loop
    page,      \* the canvas that is shown, or None
    canvases,  \* canvases so far
    reg,       \* the canvas whose channel is registered
    dec,       \* the decoder of the canvas
    pic,       \* the canvas shows a picture
    resizes, errors

hostVars == <<size, change, thread, enc, chan, sender, cur, stopping, resizes>>
ctlVars  == <<loop, page, canvases, reg, dec, pic>>
vars     == <<hostVars, wire, ctlVars, errors>>

NewDecoder == [got |-> FALSE, last |-> NoFrame, hole |-> FALSE, queue |-> 0]

\* A first capture starts and the page with the canvas opens, in any order.
Init ==
    /\ size \in Sizes /\ change = {}
    /\ thread = [k \in Captures |-> "none"]
    /\ enc = [k \in Captures |-> NoEncoder]
    /\ chan = [k \in Captures |-> <<>>]
    /\ sender = [k \in Captures |-> "none"]
    /\ cur = None /\ stopping = TRUE
    /\ wire = <<>> /\ loop = "run"
    /\ page = None /\ canvases = 0 /\ reg = None /\ dec = NewDecoder /\ pic = FALSE
    /\ resizes = 0 /\ errors = 0

-----------------------------------------------------------------------------
(* The host: capture_loop, the send task, start_capture and stop_capture.  *)

Running == {k \in Captures : thread[k] = "run"}

ScreenChanges ==
    /\ \E s \in Sizes : /\ resizes + (IF s = size THEN 0 ELSE 1) <= MaxResizes
                        /\ resizes' = resizes + (IF s = size THEN 0 ELSE 1)
                        /\ size' = s
    /\ change' = Running
    /\ UNCHANGED <<thread, enc, chan, sender, cur, stopping, wire, ctlVars, errors>>

Even(s) == s[1] % 2 = 0 /\ s[2] % 2 = 0

\* The size of the picture: that of the screen, or reduced to the limit with about the
\* same proportions, to even numbers.
Round(m, n) == (2 * m + n) \div (2 * n)
Fit(n)      == IF n < 2 THEN 2 ELSE n - (n % 2)
Target(s)   ==
    IF 0 \in {Limit[1], Limit[2]} \/ (Limit[1] >= s[1] /\ Limit[2] >= s[2]) THEN s
    ELSE IF Limit[1] * s[2] <= Limit[2] * s[1]
         THEN <<Fit(Limit[1]), Fit(Round(s[2] * Limit[1], s[1]))>>
         ELSE <<Fit(Round(s[1] * Limit[2], s[2])), Fit(Limit[2])>>

\* A new encoder starts with a key frame, and puts one out every second.
NewEncoder(number, s) == [NoEncoder EXCEPT !.number = number, !.size = s]

\* The first encoder has the size of the screen; another size of the picture needs
\* another encoder.  Encoders that put nothing out are not counted.
EncoderFor(k) ==
    IF enc[k].size = Target(size) THEN enc[k]
    ELSE NewEncoder(IF enc[k].fresh THEN enc[k].number ELSE enc[k].number + 1, Target(size))

\* What the encoder puts out at once, and what that makes of it.  Parameter sets come
\* with the first frame, later key frames may repeat them.
Outputs(e) == IF e.fresh THEN {TRUE} ELSE {FALSE, e.next = 0}
Encoded(e, params) == [e EXCEPT !.next = (@ + 1) % Gop, !.fresh = FALSE, !.params = @ \/ params]

\* The parameter sets that are kept go in front of every key frame (push_nal).
FrameOf(k, e, params) ==
    [cap |-> k, enc |-> e.number, pos |-> e.next, params |-> e.next = 0 /\ (e.params \/ params)]

\* The system has no encoder for the new size: the thread ends, the session goes on.
EncoderFails(k) ==
    /\ thread[k] = "run" /\ k \in change /\ Even(size) /\ enc[k].size # Target(size)
    /\ thread' = [thread EXCEPT ![k] = "done"] /\ enc' = [enc EXCEPT ![k] = NoEncoder]
    /\ change' = change \ {k}
    /\ UNCHANGED <<size, chan, sender, cur, stopping, resizes, wire, ctlVars, errors>>

\* A picture is lost when it comes before the interval is over, has an odd size or no
\* buffer, or is refused by the encoder, which for a new size is a new one already.
Skip(k) ==
    /\ thread[k] = "run" /\ k \in change
    /\ change' = change \ {k}
    /\ \/ UNCHANGED enc
       \/ Even(size) /\ enc' = [enc EXCEPT ![k] = EncoderFor(k)]
    /\ UNCHANGED <<size, thread, chan, sender, cur, stopping, resizes, wire, ctlVars, errors>>

\* Wrong: a frame that cannot be put into the channel is dropped and the thread goes on.
WrongGrab(k) ==
    LET e == EncoderFor(k) IN
    /\ thread[k] = "run" /\ k \in change /\ Even(size)
    /\ change' = change \ {k}
    /\ enc' = [enc EXCEPT ![k] = Encoded(e, e.fresh)]
    /\ IF sender[k] = "gone" THEN UNCHANGED chan
       ELSE /\ Len(chan[k]) < Room
            /\ chan' = [chan EXCEPT ![k] = Append(@, FrameOf(k, e, e.fresh))]
    /\ UNCHANGED <<size, thread, sender, cur, stopping, resizes, wire, ctlVars, errors>>

\* The frame is encoded and put into the channel, once there is room; the thread ends
\* when the other end of the channel is gone (blocking_send).
Grab(k) ==
    LET e == EncoderFor(k) IN
    /\ thread[k] = "run" /\ k \in change /\ Even(size)
    /\ change' = change \ {k}
    /\ \/ /\ sender[k] = "gone"
          /\ thread' = [thread EXCEPT ![k] = "done"] /\ enc' = [enc EXCEPT ![k] = NoEncoder]
          /\ UNCHANGED chan
       \/ /\ sender[k] = "run" /\ Len(chan[k]) < Room
          /\ \E params \in Outputs(e) :
                /\ enc' = [enc EXCEPT ![k] = Encoded(e, params)]
                /\ chan' = [chan EXCEPT ![k] = Append(@, FrameOf(k, e, params))]
          /\ UNCHANGED thread
    /\ UNCHANGED <<size, sender, cur, stopping, resizes, wire, ctlVars, errors>>

\* The send task takes a frame out and sends it; send_video returns when the other
\* side has all of it.
SendVideo(k) ==
    /\ sender[k] = "run" /\ chan[k] # <<>> /\ Len(wire) < Room
    /\ wire' = Append(wire, Head(chan[k]))
    /\ chan' = [chan EXCEPT ![k] = Tail(@)]
    /\ UNCHANGED <<size, change, thread, enc, sender, cur, stopping, resizes, ctlVars, errors>>

\* Wrong: the capture that was stopped stays in the state.
WrongStopCapture ==
    /\ cur # None /\ ~stopping /\ cur < MaxCaptures
    /\ stopping' = TRUE
    /\ sender' = [sender EXCEPT ![cur] = "gone"]
    /\ chan' = [chan EXCEPT ![cur] = <<>>]
    /\ UNCHANGED <<size, change, thread, enc, cur, resizes, wire, ctlVars, errors>>

\* Saved settings, or sharing started again: the send task is aborted wherever it
\* is.  A frame it is just sending may be through, not have begun, or leave a
\* stream that ends early.
StopCapture ==
    /\ cur # None /\ ~stopping /\ cur < MaxCaptures
    /\ cur' = None /\ stopping' = TRUE
    /\ sender' = [sender EXCEPT ![cur] = "gone"]
    /\ chan' = [chan EXCEPT ![cur] = <<>>]
    /\ \/ UNCHANGED wire
       \/ /\ chan[cur] # <<>> /\ Len(wire) < Room
          /\ \E f \in {Head(chan[cur]), Torn} : wire' = Append(wire, f)
    /\ UNCHANGED <<size, change, thread, enc, resizes, ctlVars, errors>>

\* The thread of the last capture need not have ended.
StartCapture(k) ==
    /\ stopping /\ thread[k] = "none" /\ \A j \in 1..(k - 1) : thread[j] # "none"
    /\ cur' = k /\ stopping' = FALSE
    /\ thread' = [thread EXCEPT ![k] = "run"] /\ sender' = [sender EXCEPT ![k] = "run"]
    /\ enc' = [enc EXCEPT ![k] = NewEncoder(0, size)]
    /\ change' = change \union {k}
    /\ UNCHANGED <<size, chan, resizes, wire, ctlVars, errors>>

-----------------------------------------------------------------------------
(* The controller: the receive loop, and the canvas with its decoder.      *)

\* Wrong: a decoder is fed from whatever frame comes first.
WrongFeed(f) == [dec EXCEPT !.got = TRUE, !.last = f, !.queue = @ + 1]

\* onmessage: nothing before the first key frame, no delta while frames pile up.
Feed(f) ==
    IF ~Key(f) /\ ~dec.got THEN dec
    ELSE IF ~Key(f) /\ dec.queue > Lag THEN [dec EXCEPT !.hole = TRUE]
    ELSE [got |-> TRUE, last |-> f, hole |-> dec.hole /\ ~Key(f), queue |-> dec.queue + 1]

\* A frame goes to the registered channel; of a canvas that is gone it has no effect.
Receive ==
    /\ loop = "run" /\ wire # <<>> /\ Head(wire) # Torn /\ dec.queue <= Lag + 1
    /\ wire' = Tail(wire)
    /\ dec' = IF page # None /\ reg = page THEN Feed(Head(wire)) ELSE dec
    /\ UNCHANGED <<hostVars, loop, page, canvases, reg, pic, errors>>

\* A stream that ends early is an error, after which the loop reads no more.
ReceiveTorn ==
    /\ loop = "run" /\ wire # <<>> /\ Head(wire) = Torn
    /\ wire' = Tail(wire) /\ loop' = "done"
    /\ UNCHANGED <<hostVars, page, canvases, reg, dec, pic, errors>>

Decoded ==
    /\ dec.queue > 0
    /\ dec' = [dec EXCEPT !.queue = @ - 1] /\ pic' = TRUE
    /\ UNCHANGED <<hostVars, wire, loop, page, canvases, reg, errors>>

\* The decoder fails: the next combination of codec and acceleration gets a new one.
DecodeFails ==
    /\ dec.queue > 0 /\ canvases + errors < MaxDecoders
    /\ errors' = errors + 1 /\ dec' = NewDecoder
    /\ UNCHANGED <<hostVars, wire, loop, page, canvases, reg, pic>>

\* The page is shown: a new canvas, with a decoder and a channel to register.
ShowPage ==
    /\ page = None /\ canvases + errors < MaxDecoders
    /\ canvases' = canvases + 1 /\ page' = canvases + 1
    /\ dec' = NewDecoder /\ pic' = FALSE
    /\ UNCHANGED <<hostVars, wire, loop, reg, errors>>

LeavePage ==
    /\ page # None
    /\ page' = None /\ dec' = NewDecoder /\ pic' = FALSE
    /\ UNCHANGED <<hostVars, wire, loop, canvases, reg, errors>>

\* Wrong: a channel that is registered is not replaced.
WrongSetVideoChannel ==
    /\ reg = None /\ canvases > 0 /\ reg' = 1
    /\ UNCHANGED <<hostVars, wire, loop, page, canvases, dec, pic, errors>>

\* desktop_set_video_channel, in the order of the calls.
SetVideoChannel ==
    /\ reg < canvases /\ reg' = reg + 1
    /\ UNCHANGED <<hostVars, wire, loop, page, canvases, dec, pic, errors>>

-----------------------------------------------------------------------------

Capture(k) == Grab(k) \/ Skip(k) \/ EncoderFails(k)
Client     == Receive \/ ReceiveTorn \/ SetVideoChannel

Next ==
    \/ ScreenChanges \/ StopCapture
    \/ \E k \in Captures : Capture(k) \/ SendVideo(k) \/ StartCapture(k)
    \/ Client \/ Decoded \/ DecodeFails \/ ShowPage \/ LeavePage

Spec == Init /\ [][Next]_vars

\* Threads, tasks and the decoder go on, commands end; not every picture is lost.
Progress ==
    /\ \A k \in Captures : SF_vars(Grab(k)) /\ WF_vars(SendVideo(k))
    /\ WF_vars(\E k \in Captures : StartCapture(k))
    /\ WF_vars(Receive \/ ReceiveTorn) /\ WF_vars(SetVideoChannel) /\ WF_vars(Decoded)

\* Nothing need happen on the screen of the host.
StillSpec == Spec /\ Progress

\* The screen of the host keeps changing.
BusySpec == StillSpec /\ WF_vars(ScreenChanges)

-----------------------------------------------------------------------------

\* The values of the variables.
TypeOK ==
    /\ size \in Sizes /\ change \subseteq Captures
    /\ thread \in [Captures -> {"none", "run", "done"}]
    /\ \A k \in Captures : /\ enc[k].number \in 0..(MaxResizes + 1) /\ enc[k].next \in 0..(Gop - 1)
                           /\ enc[k].size \in Sizes \union {Target(s) : s \in Sizes} \union {<<0, 0>>}
                           /\ Len(chan[k]) <= Room
    /\ sender \in [Captures -> {"none", "run", "gone"}]
    /\ cur \in Captures \union {None} /\ stopping = (cur = None)
    /\ Len(wire) <= Room /\ \A i \in 1..Len(wire) : wire[i] \in Frames \union {Torn}
    /\ loop \in {"run", "done"} /\ page \in 0..MaxDecoders /\ canvases \in 0..MaxDecoders
    /\ reg \in 0..canvases /\ pic \in BOOLEAN
    /\ dec \in [got : BOOLEAN, last : Frames \union {NoFrame}, hole : BOOLEAN, queue : 0..(Lag + 2)]
    /\ resizes \in 0..MaxResizes /\ errors \in 0..MaxDecoders

\* Every delta frame that a decoder gets builds on the frame it got before, through
\* restarts of the capture, new encoders, encoder errors and pages that come and
\* go; only frames dropped to catch up tear a hole, until the next key frame.  Every
\* key frame brings the parameter sets, without which no decoder starts
\* (capture_loop, push_nal, start_capture, onmessage).
FedInOrder ==
    [][dec'.last # dec.last /\ dec'.got =>
          IF Key(dec'.last) THEN dec'.last.params
          ELSE dec.hole \/ Before(dec.last, dec'.last)]_vars

\* A canvas does not stay black (README.md: no black screen after connecting again
\* or switching pages), whatever was restarted or lost on the way, as long as the
\* screen changes, has a size that can be encoded, the capture goes on and the loop
\* still reads.
PictureReturns ==
    (page # None /\ ~pic /\ Even(size))
        ~> (page = None \/ pic \/ ~Even(size) \/ loop = "done"
            \/ (cur # None /\ thread[cur] = "done"))

\* A capture that was replaced ends, its thread does not go on for ever next to
\* the new one (stop_capture waits 1.5 seconds for it at most).
ReplacedEnds ==
    LET replaced == {k \in Running : sender[k] = "gone"}
    IN  replaced # {} ~> (replaced = {} \/ ~Even(size))

\* Changed settings take effect without ending the controller's receive loop.
RestartIsHarmless == [](loop = "run")
=============================================================================
