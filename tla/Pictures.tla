------------------------------ MODULE Pictures ------------------------------
(***************************************************************************)
(* The pictures of a camera, in four parts that share nothing.             *)
(* The bytes of its streamer as a recording and a photo take them          *)
(* (routes/cameraRoutes.ts): bytes are few, a number is the head of a      *)
(* frame and says how many bytes follow, and a byte of a frame may look    *)
(* like a head. A live picture whose client may leave. The table of        *)
(* recordings: the requests that start and stop one, the loop that writes  *)
(* its file, the list and deletion of what was saved; the stream is        *)
(* connected to before a recording is entered, and a stop waits five       *)
(* seconds at most for the loop to end: other requests come in between.    *)
(* And an IP camera that is asked to move or for its streams               *)
(* (cameraProbe.ts), in each of the ways it may know.                      *)
(***************************************************************************)
EXTENDS Integers, Sequences, FiniteSets

CONSTANTS None,
          MaxFrames, MaxBuffer, \* bounds: frames a streamer sends; what a photo keeps
          MaxRecordings,        \* bound: recordings ever started
          MaxRequests,          \* bound: starts, and stops, that wait at a time
          Paths                 \* the paths that are tried for a stream are 1..Paths; RTSP_PATH_CANDIDATES in the code

\* The recording and the photo, what the streamer sent to it, how much of that was taken, and how much is in the file.
VARIABLES take, stream, whole, taken, filed, sidecar, photo
takeVars == <<take, stream, whole, taken, filed, sidecar, photo>>
\* The live picture: its request, its client, the connection to the streamer.
VARIABLES view, client, upstream, leftEarly
viewVars == <<view, client, upstream, leftEarly>>
VARIABLES
  active,      \* activeCameraRecordings, for the camera
  recordings,  \* each recording: is its loop running, cancelled, ended, its file and its sidecar
  starting,    \* starts that passed the check and wait for the stream
  stopping,    \* stops that wait, with the recording they found
  overlapped   \* history: did a start pass the check while another one waited?
recordingVars == <<active, recordings, starting, stopping, overlapped>>
VARIABLES
  camera,      \* how the camera that is asked behaves; it never changes
  asked,       \* the request, and how far it is
  missed,      \* history: which exchanges had no answer
  turned,      \* history: how often the camera carried the movement out
  found,       \* the paths that gave a stream
  told         \* the answer
askVars == <<camera, asked, missed, turned, found, told>>

\* ---- the bytes ----------------------------------------------------------

\* A frame: its length, and as many bytes, one of which may look like the head of another.
Frames == {<<1, 0>>, <<1, 1>>, <<2, 1, 0>>, <<2, 0, 0>>}

\* Variant: whatever looks like a head is taken for one.
CountHeads(bytes) == LET heads == {at \in 1..Len(bytes) : bytes[at] > 0 /\ at + bytes[at] <= Len(bytes)}
                         of[n \in 0..Len(bytes)] == IF n = 0 THEN 0 ELSE of[n - 1] + IF n \in heads THEN 1 ELSE 0
                     IN of[Len(bytes)]

\* Every whole frame ends where its own length says; the rest of a frame that was cut is not counted.
CountMjpegFrames(bytes) ==
  LET from[at \in 1..(Len(bytes) + 1)] ==
        IF at > Len(bytes) \/ at + bytes[at] > Len(bytes) THEN 0 ELSE 1 + from[at + bytes[at] + 1]
  IN from[1]

\* The bytes of the first frame, once all of them are there.
ExtractFirstJpegFrame(bytes) ==
  IF bytes = <<>> THEN None ELSE IF Len(bytes) < 1 + bytes[1] THEN None ELSE SubSeq(bytes, 2, 1 + bytes[1])

Bytes(n) == SubSeq(stream, 1, n)

TakeInit ==
  /\ take = "none" /\ stream = <<>> /\ whole = <<>> /\ taken = 0 /\ filed = 0
  /\ sidecar = None /\ photo = None

\* A recording or a photo is asked for and its connection is there.
Begin ==
  /\ take = "none" /\ take' \in {"recording", "photo"}
  /\ UNCHANGED <<stream, whole, taken, filed, sidecar, photo>>

\* The streamer sends a frame; where a frame ends is remembered to compare with.
FrameSent ==
  /\ take \in {"recording", "photo"} /\ Len(whole) < MaxFrames
  /\ \E frame \in Frames :
       /\ stream' = stream \o frame
       /\ whole' = Append(whole, Len(stream'))
  /\ UNCHANGED <<take, taken, filed, sidecar, photo>>

\* A read returns as many bytes as have come, wherever that cuts a frame.
Chunk ==
  /\ take = "recording" /\ taken' \in (taken + 1)..Len(stream)
  /\ UNCHANGED <<take, stream, whole, filed, sidecar, photo>>

\* The file follows what was given to its stream, also after that was told to end.
Filed ==
  /\ filed' \in (filed + 1)..taken
  /\ UNCHANGED <<take, stream, whole, taken, sidecar, photo>>

\* The streamer goes away: the loop ends, and nobody asked for a sidecar.
StreamEnds ==
  /\ take = "recording" /\ take' = "ended"
  /\ UNCHANGED <<stream, whole, taken, filed, sidecar, photo>>

\* The reader is cancelled: nothing more is taken. The loop may still wait for its file.
StopRecording ==
  /\ take = "recording" /\ take' = "stopping"
  /\ UNCHANGED <<stream, whole, taken, filed, sidecar, photo>>

\* After the end of the loop, which does not wait for the file, or after five seconds: what the file holds now is counted.
StopAnswers ==
  /\ take = "stopping" /\ take' = "stopped"
  /\ sidecar' = CountMjpegFrames(Bytes(filed))
  /\ UNCHANGED <<stream, whole, taken, filed, photo>>

\* A photo keeps everything it read: the first frame is looked for, then the size.
PhotoChunk ==
  /\ take = "photo"
  /\ taken' \in (taken + 1)..Len(stream)
  /\ LET frame == ExtractFirstJpegFrame(Bytes(taken')) IN
       /\ photo' = frame
       /\ take' = IF frame # None THEN "stored" ELSE IF taken' > MaxBuffer THEN "given up" ELSE take
  /\ UNCHANGED <<stream, whole, filed, sidecar>>

\* The streamer ends, or five seconds are over.
PhotoGivenUp ==
  /\ take = "photo" /\ take' = "given up"
  /\ UNCHANGED <<stream, whole, taken, filed, sidecar, photo>>

TakeNext == Begin \/ FrameSent \/ Chunk \/ Filed \/ StreamEnds \/ StopRecording \/ StopAnswers \/ PhotoChunk \/ PhotoGivenUp

\* The frames that are whole among the first bytes.
WholeAmong(n) == Cardinality({i \in DOMAIN whole : whole[i] <= n})

\* ---- the live picture ---------------------------------------------------

ViewInit == view = "none" /\ client = "here" /\ upstream = "none" /\ leftEarly = FALSE

View ==
  /\ view = "none" /\ view' = "connecting"
  /\ UNCHANGED <<client, upstream, leftEarly>>

\* The streamer answers and its bytes are handed on; the end of the client is looked for from here on.
Connected ==
  /\ view = "connecting" /\ view' = "open" /\ upstream' = "open"
  /\ UNCHANGED <<client, leftEarly>>

\* No streamer, five seconds, or an answer that is none.
ConnectFails ==
  /\ view = "connecting" /\ view' = "refused"
  /\ UNCHANGED <<client, upstream, leftEarly>>

\* Variant: the end of the client is not looked for.
ClientLeavesUnseen ==
  /\ view \in {"connecting", "open"} /\ client = "here" /\ client' = "gone"
  /\ leftEarly' = (view = "connecting")
  /\ UNCHANGED <<view, upstream>>

\* The client goes: the connection to the streamer is ended, if there is one by then.
ClientLeaves ==
  /\ view \in {"connecting", "open"} /\ client = "here" /\ client' = "gone"
  /\ leftEarly' = (view = "connecting")
  /\ upstream' = IF view = "open" THEN "closed" ELSE upstream
  /\ UNCHANGED view

\* A frame is handed on. One for a client that left before the answer may end the connection or wait for ever, as the version of
\* the runtime has it.
FrameHandedOn ==
  /\ upstream = "open" /\ client = "gone" /\ upstream' = "closed"
  /\ UNCHANGED <<view, client, leftEarly>>

\* The streamer goes: so does the answer to the client.
StreamerGoes ==
  /\ upstream = "open" /\ upstream' = "closed"
  /\ UNCHANGED <<view, client, leftEarly>>

ViewNext == View \/ Connected \/ ConnectFails \/ ClientLeaves \/ FrameHandedOn \/ StreamerGoes

\* ---- the recordings of the camera ----------------------------------------

Ids == 1..MaxRecordings
Recs == [loop : {"running", "cancelled", "ended"}, file : BOOLEAN, sidecar : {"none", "partial", "whole"}]

Writing(r) == recordings[r] # None /\ recordings[r].loop # "ended"
Unused == {r \in Ids : recordings[r] = None}

\* POST recording/start, up to the await: one that is recording is refused.
StartRecording ==
  /\ active = None /\ starting < MaxRequests
  /\ starting' = starting + 1
  /\ overlapped' = (overlapped \/ starting > 0)
  /\ UNCHANGED <<active, recordings, stopping>>

\* The stream answered, or did not: nothing is looked at again.
StreamAnswers ==
  /\ starting > 0
  /\ starting' = starting - 1
  /\ \/ UNCHANGED <<active, recordings>>
     \/ LET r == CHOOSE u \in Unused : \A v \in Unused : u <= v IN
          /\ Unused # {}
          /\ active' = r
          /\ recordings' = [recordings EXCEPT ![r] = [loop |-> "running", file |-> TRUE, sidecar |-> "none"]]
  /\ UNCHANGED <<stopping, overlapped>>

\* The end of a loop takes away the entry of the camera, whichever recording that is of.
Cleared(r) == None

\* The stream ends, is cancelled or fails.
LoopEnds(r) ==
  /\ Writing(r)
  /\ recordings' = [recordings EXCEPT ![r].loop = "ended"]
  /\ active' = Cleared(r)
  /\ UNCHANGED <<starting, stopping, overlapped>>

\* Variant: a stop that answers for a recording that is still being written.
StopForgets ==
  /\ active # None
  /\ active' = None
  /\ recordings' = [recordings EXCEPT ![active].loop = "cancelled"]
  /\ stopping' = stopping \cup {active}
  /\ UNCHANGED <<starting, overlapped>>

\* POST recording/stop, up to the await: the loop takes the entry away when it ends.
StopWaits ==
  /\ active # None
  /\ recordings' = [recordings EXCEPT ![active].loop = "cancelled"]
  /\ stopping' = stopping \cup {active}
  /\ UNCHANGED <<active, starting, overlapped>>

\* The loop ended, or five seconds went by: the frames of the file are counted as it is. A file that
\* cannot be read has no sidecar.
StopIsAnswered(r) ==
  /\ r \in stopping
  /\ stopping' = stopping \ {r}
  /\ recordings' = [recordings EXCEPT ![r].sidecar =
       CASE ~recordings[r].file -> @
         [] recordings[r].loop = "ended" -> "whole"
         [] OTHER -> "partial"]
  /\ UNCHANGED <<active, starting, overlapped>>

MayDelete(r) == recordings[r] # None /\ recordings[r].file /\ active # r

Delete(r) ==
  /\ MayDelete(r)
  /\ recordings' = [recordings EXCEPT ![r].file = FALSE, ![r].sidecar = "none"]
  /\ UNCHANGED <<active, starting, stopping, overlapped>>

\* The memory is lost, and the requests that wait with it; each file ends with its last whole frame.
RecordingRestart ==
  /\ active' = None /\ starting' = 0 /\ stopping' = {} /\ UNCHANGED overlapped
  /\ recordings' = [r \in Ids |-> IF Writing(r) THEN [recordings[r] EXCEPT !.loop = "ended"] ELSE recordings[r]]

RecordingInit ==
  /\ active = None /\ starting = 0 /\ stopping = {} /\ overlapped = FALSE
  /\ recordings = [r \in Ids |-> None]

RecordingNext ==
  \/ StartRecording \/ StreamAnswers \/ StopWaits \/ RecordingRestart
  \/ \E r \in Ids : LoopEnds(r) \/ StopIsAnswered(r) \/ Delete(r)

\* What GET media says of a recording: is it being made, and are its frames known?
Listed(r) == [recording |-> active = r, counted |-> recordings[r].sidecar # "none"]

\* ---- a camera that is asked ---------------------------------------------

\* A way to ask: it opens to anybody, it wants a name in one of two ways or in another one, or it knows nothing of this.
Ways == {"open", "basic", "digest", "other", "unknown"}
Deaf == [p \in 1..Paths |-> "unknown"]
Cameras ==
  [hi3510 : {"moves", "unknown"}, psia : Ways, known : BOOLEAN, paths : {Deaf}]
  \union [hi3510 : {"unknown"}, psia : {"unknown"}, known : BOOLEAN, paths : [1..Paths -> Ways]]

\* A number of the client, or what is none, within what the interface knows.
Clamped(n) == IF n = None THEN 0 ELSE IF n < -100 THEN -100 ELSE IF n > 100 THEN 100 ELSE n

\* One axis at a time, the first that is to move.
Hi3510Action(move) ==
  IF move.pan # 0 THEN (IF move.pan < 0 THEN "left" ELSE "right")
  ELSE IF move.tilt # 0 THEN (IF move.tilt > 0 THEN "up" ELSE "down")
  ELSE IF move.zoom # 0 THEN (IF move.zoom > 0 THEN "zoomin" ELSE "zoomout") ELSE "stop"

Magnitude(n) == IF n < 0 THEN -n ELSE n

\* The greatest of the three as one of 63 speeds, rounded; nothing at all counts as 45.
Size(move) == CHOOSE n \in {Magnitude(move.pan), Magnitude(move.tilt), Magnitude(move.zoom)} :
                \A m \in {Magnitude(move.pan), Magnitude(move.tilt), Magnitude(move.zoom)} : m <= n
Speed(move) ==
  LET part == (2 * 63 * Size(move) + 100) \div 200
  IN IF part = 0 THEN 45 ELSE IF part > 63 THEN 63 ELSE part

AskInit == camera \in Cameras /\ asked = None /\ missed = {} /\ turned = 0 /\ found = <<>> /\ told = None

\* POST ptz: the one convention first, at once with the name.
Turns == {None, -250, -1, 0, 50}
AskToTurn ==
  /\ asked = None
  /\ \E user \in BOOLEAN, pan, tilt \in Turns, zoom \in {0, 3} :
       LET move == [pan |-> Clamped(pan), tilt |-> Clamped(tilt), zoom |-> Clamped(zoom)] IN
       asked' = [kind |-> "turn", step |-> "hi3510", user |-> user, first |-> 0,
                 move |-> move, act |-> Hi3510Action(move), speed |-> Speed(move)]
  /\ UNCHANGED <<camera, missed, turned, found, told>>

Told(ok, status) == told' = [ok |-> ok, status |-> status] /\ asked' = [asked EXCEPT !.step = "done"]

\* No answer in four seconds, or a connection that fails: the camera may have moved all the same.
NoAnswer(able) ==
  /\ missed' = missed \union {asked.step}
  /\ \/ able /\ turned' = turned + 1
     \/ UNCHANGED turned

Hi3510PtzRequest ==
  /\ asked # None /\ asked.step = "hi3510"
  /\ \/ camera.hi3510 = "moves" /\ turned' = turned + 1 /\ Told(TRUE, 200) /\ UNCHANGED missed
     \/ camera.hi3510 # "moves" /\ asked' = [asked EXCEPT !.step = "plain", !.first = 404] /\ UNCHANGED <<missed, turned, told>>
     \/ NoAnswer(camera.hi3510 = "moves") /\ asked' = [asked EXCEPT !.step = "plain"] /\ UNCHANGED told
  /\ UNCHANGED <<camera, found>>

\* Does this request get in: without a name, or with the one that was asked for?
Opens(way) == IF asked.step = "plain" THEN way = "open" ELSE way \in {"basic", "digest"} /\ camera.known
\* Is the request made once more, with the name?
AsksAgain(way, ways) == asked.step = "plain" /\ way \in ways /\ asked.user

\* Of two failures the first is told, unless nobody was there.
Failed(status) == Told(FALSE, IF asked.first # 0 THEN asked.first ELSE status)

\* Then the other, first without a name; what the camera asks for decides how the name is given, and the second answer is final.
PsiaRequest ==
  /\ asked # None /\ asked.kind = "turn" /\ asked.step \in {"plain", "named"}
  /\ \/ Opens(camera.psia) /\ turned' = turned + 1 /\ Told(TRUE, 200) /\ UNCHANGED missed
     \/ AsksAgain(camera.psia, {"basic", "digest"}) /\ asked' = [asked EXCEPT !.step = "named"] /\ UNCHANGED <<missed, turned, told>>
     \/ /\ ~Opens(camera.psia) /\ ~AsksAgain(camera.psia, {"basic", "digest"})
        /\ Failed(IF camera.psia = "unknown" THEN 500 ELSE 401) /\ UNCHANGED <<missed, turned>>
     \/ NoAnswer(Opens(camera.psia)) /\ Failed(0)
  /\ UNCHANGED <<camera, found>>

\* POST discover-rtsp-path: every path there is, one after another.
AskForStreams ==
  /\ asked = None
  /\ \E user \in BOOLEAN : asked' = [kind |-> "streams", step |-> "plain", user |-> user, path |-> 1]
  /\ UNCHANGED <<camera, missed, turned, found, told>>

\* Variant: the first stream is enough.
NextPathUntilFound ==
  IF asked.path = Paths \/ found' # <<>> THEN asked' = [asked EXCEPT !.step = "done"] /\ told' = [ok |-> found' # <<>>]
  ELSE asked' = [asked EXCEPT !.step = "plain", !.path = @ + 1] /\ UNCHANGED told

NextPath ==
  IF asked.path = Paths THEN asked' = [asked EXCEPT !.step = "done"] /\ told' = [ok |-> found' # <<>>]
  ELSE asked' = [asked EXCEPT !.step = "plain", !.path = @ + 1] /\ UNCHANGED told

\* The port of the streams knows one way to give a name; an answer that does not come is no stream, and not the end of the search.
RtspDescribeOnce ==
  /\ asked # None /\ asked.kind = "streams" /\ asked.step # "done"
  /\ LET way == camera.paths[asked.path] IN
     \/ AsksAgain(way, {"digest"}) /\ asked' = [asked EXCEPT !.step = "named"] /\ UNCHANGED <<missed, found, told>>
     \/ /\ ~AsksAgain(way, {"digest"})
        /\ found' = IF Opens(way) THEN Append(found, asked.path) ELSE found
        /\ NextPath /\ UNCHANGED missed
     \/ missed' = missed \union {asked.path} /\ UNCHANGED found /\ NextPath
  /\ UNCHANGED <<camera, turned>>

AskNext == AskToTurn \/ Hi3510PtzRequest \/ PsiaRequest \/ AskForStreams \/ RtspDescribeOnce

-----------------------------------------------------------------------------
TakeTypeOK ==
  /\ take \in {"none", "recording", "stopping", "stopped", "ended", "photo", "stored", "given up"}
  /\ filed <= taken /\ taken <= Len(stream) /\ Len(whole) <= MaxFrames
  /\ sidecar \in {None} \union 0..MaxFrames

ViewTypeOK ==
  /\ view \in {"none", "connecting", "open", "refused"} /\ client \in {"here", "gone"}
  /\ upstream \in {"none", "open", "closed"} /\ leftEarly \in BOOLEAN

RecordingTypeOK ==
  /\ active \in Ids \cup {None}
  /\ recordings \in [Ids -> Recs \cup {None}]
  /\ starting \in 0..MaxRequests
  /\ stopping \subseteq Ids /\ overlapped \in BOOLEAN

AskTypeOK ==
  /\ camera \in Cameras /\ turned \in 0..3 /\ Len(found) <= Paths
  /\ asked = None => missed = {}
  /\ asked # None => asked.step \in {"hi3510", "plain", "named", "done"}
                     /\ missed \subseteq IF asked.kind = "turn" THEN {"hi3510", "plain", "named"} ELSE 1..Paths

\* Wherever a recording was cut, the frames that are counted in it are those that are whole (routes/cameraRoutes.ts), and what
\* is noted beside it is never more, though it may be less: the end of the loop does not wait for the file.
FramesAreCounted ==
  /\ \A n \in 0..Len(stream) : CountMjpegFrames(Bytes(n)) = WholeAmong(n)
  /\ sidecar # None => sidecar <= WholeAmong(filed)

\* A photo is the first frame, whole, however the reads cut it (routes/cameraRoutes.ts).
PhotosAreWhole == take = "stored" => photo = SubSeq(stream, 2, whole[1])

\* A picture whose client left does not keep its connection to the streamer, unless it left before there was one.
ViewersClose == upstream = "open" /\ client = "gone" => leftEarly

\* What is entered as recording is being written, and its file is there: a stop finds a loop to wait for, and a
\* deletion never takes the file of the recording the camera is known to make.
ActiveIsWritten == active # None => Writing(active) /\ recordings[active].file

\* A camera has one recording in flight (cameraRoutes.ts:256), unless two starts overlapped: the check is before
\* the await and nothing is looked at again, so both of them record.
OneRecording == ~overlapped => Cardinality({r \in Ids : Writing(r)}) <= 1

\* What is listed as made is made, unless two starts overlapped: a recording whose loop still writes is listed as being made, also
\* when the stop that waited for it gave up (routes/cameraRoutes.ts, GET media), and what is being made has its file.
ListIsTrue == ~overlapped => \A r \in Ids : recordings[r] # None /\ recordings[r].file /\ ~Listed(r).recording => ~Writing(r)

\* A movement that is answered with success was carried out, in a direction and with a speed the camera knows, and it stands still
\* exactly if nothing was asked for; it is carried out twice, or told as failed after all, only if an answer was lost; the silence
\* of a camera is told only if it was silent to the end (cameraProbe.ts, sendPtzCommand). With no answer lost every camera moves
\* that takes the movement in one of the two ways, with or without a name.
MovesAreTrue ==
  asked # None /\ asked.kind = "turn" =>
    /\ asked.speed \in 1..63 /\ (asked.act = "stop" <=> \A axis \in DOMAIN asked.move : asked.move[axis] = 0)
    /\ turned > 1 => missed # {}
    /\ told # None =>
         /\ told.ok => turned >= 1
         /\ ~told.ok /\ turned > 0 => missed # {}
         /\ ~told.ok /\ told.status = 0 => "hi3510" \in missed /\ Cardinality(missed) = 2
         /\ missed = {} => (told.ok <=> \/ camera.hi3510 = "moves" \/ camera.psia = "open"
                                        \/ camera.psia \in {"basic", "digest"} /\ asked.user /\ camera.known)

\* The search finds each stream that opens to the name that was given, in order, and misses only what did not answer
\* (cameraProbe.ts, discoverRtspPath).
StreamsAreFound ==
  asked # None /\ asked.kind = "streams" /\ asked.step = "done" =>
    /\ {found[i] : i \in DOMAIN found} =
         {p \in 1..Paths : camera.paths[p] = "open" \/ (camera.paths[p] = "digest" /\ asked.user /\ camera.known)} \ missed
    /\ \A i, j \in DOMAIN found : i < j => found[i] < found[j]
    /\ told.ok <=> found # <<>>
=============================================================================
