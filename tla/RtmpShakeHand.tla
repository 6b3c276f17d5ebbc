--------------------------- MODULE RtmpShakeHand ---------------------------
(***************************************************************************)
(* The shake hand of a push connection: RtmpPushConnection (live/          *)
(* connection) and RtmpManager::ParseShakeHand (utils/codec), against a    *)
(* broadcaster that talks as OBS does: it waits for an answer before it    *)
(* goes on, but sends in a row what needs no answer of its own.            *)
(*                                                                         *)
(* A message travels as two halves, so that TCP can cut the stream inside  *)
(* a message as well as between messages.                                  *)
(***************************************************************************)
EXTENDS Integers, SequencesExt

CONSTANTS
  Accepted,     \* the answers the authentication callback may give
  CreateForms,  \* how createStream may be sent: in full, or as a 0xc3 chunk
  MaxData       \* bound: pieces of media data

ASSUME ConstantsAssumption ==
  /\ Accepted \subseteq BOOLEAN
  /\ CreateForms \subseteq {"full", "c3"}
  /\ MaxData \in Nat

VARIABLES
  form,        \* how this broadcaster sends createStream
  groups,      \* the broadcaster: how many groups it has sent
  awaits,      \* the answer it waits for
  toServer,    \* on the way to the server
  answers,     \* ghost: everything the server has sent
  got,         \* how many of the answers the broadcaster has read
  left,        \* the broadcaster has closed the connection
  buffer,      \* recv_buffer_
  status,      \* shake_hand_status_
  partial,     \* the decoder holds the first half of a message
  callback,    \* the message callback: shake hand, or body
  connected,   \* the connection is CONNECTED: Send sends, Shutdown was not called
  closed,      \* OnClose ran
  bound,       \* OnShakeHandSuccess entered the connection in the room map
  accepted,    \* what the authentication callback will say
  pc,          \* where the handler is
  parsed,      \* halves of pieces of data that OnBodyData parsed
  garbled      \* the decoder took something for what it is not

clientVars == <<form, groups, awaits, got, left>>
serverVars == <<status, partial, callback, connected, bound, parsed, garbled>>
shakeVars == <<clientVars, serverVars, toServer, answers, buffer, closed, accepted, pc>>

None == "none"
\* The messages of a broadcaster, in order, which are also the states that
\* wait for them, and the answers to some of them.
Messages == <<"C01", "C2", "SetChunkSize", "Connect", "Release", "FCPublish",
              "CreateStream", "Publish">>
Script == << [msgs |-> <<"C01">>, answer |-> "S01"],
             [msgs |-> <<"C2">>, answer |-> "S2"],
             [msgs |-> <<"SetChunkSize", "Connect">>, answer |-> "ConnectResult"],
             [msgs |-> <<"Release", "FCPublish", "CreateStream">>,
              answer |-> "Result"],
             [msgs |-> <<"Publish">>, answer |-> "Start"] >>

\* The g-th group: after those of the shake hand each is a piece of data.
Group(g) == IF g <= Len(Script) THEN Script[g] ELSE [msgs |-> <<"Data">>, answer |-> None]

Halves(msgs) ==
  [i \in 1 .. 2 * Len(msgs) |-> [msg |-> msgs[(i + 1) \div 2], half |-> 2 - (i % 2)]]

\* Mutant: the state after C2 is the one of MONITOR_MODE.
NextStatusMonitor(msg) ==
  CASE msg = "C2" -> "Connect"
    [] msg = "Publish" -> "Success"
    [] OTHER -> Messages[1 + CHOOSE i \in DOMAIN Messages : Messages[i] = msg]

NextStatus(msg) ==
  IF msg = "Publish" THEN "Success"
  ELSE Messages[1 + CHOOSE i \in DOMAIN Messages : Messages[i] = msg]

\* Mutant: createStream is answered when FCPublish is there.
AnswerToEarly(msg) ==
  CASE msg = "C01" -> "S01" [] msg = "C2" -> "S2"
    [] msg = "Connect" -> "ConnectResult" [] msg = "FCPublish" -> "Result"
    [] msg = "Publish" -> "Start" [] OTHER -> None

\* ShakeHand: what is sent when a message is complete.  ConnectResult stands
\* for the four messages that are sent in a row.
AnswerTo(msg) ==
  CASE msg = "C01" -> "S01" [] msg = "C2" -> "S2"
    [] msg = "Connect" -> "ConnectResult" [] msg = "CreateStream" -> "Result"
    [] msg = "Publish" -> "Start" [] OTHER -> None

ShakeInit ==
  /\ form \in CreateForms
  /\ groups = 0 /\ awaits = None /\ got = 0 /\ left = FALSE
  /\ toServer = <<>> /\ answers = <<>> /\ buffer = <<>>
  /\ status = "C01" /\ partial = FALSE /\ callback = "shake"
  /\ connected = TRUE /\ closed = FALSE /\ bound = FALSE
  /\ accepted \in Accepted
  /\ pc = "idle" /\ parsed = 0 /\ garbled = FALSE

-----------------------------------------------------------------------------
(* The broadcaster *)

SendGroup ==
  /\ ~left /\ groups < Len(Script) + MaxData /\ awaits = None
  /\ groups' = groups + 1
  /\ toServer' = toServer \o Halves(Group(groups').msgs)
  /\ awaits' = Group(groups').answer
  /\ UNCHANGED <<form, got, left, serverVars, answers, buffer, closed, accepted, pc>>

ReadAnswer ==
  /\ ~left /\ got < Len(answers)
  /\ got' = got + 1
  /\ awaits' = IF answers[got + 1] = awaits THEN None ELSE awaits
  /\ UNCHANGED <<form, groups, left, serverVars, toServer, answers, buffer, closed,
                 accepted, pc>>

\* It leaves when it likes, and when the server has shut its side.
Leave ==
  /\ ~left
  /\ left' = TRUE
  /\ UNCHANGED <<form, groups, awaits, got, serverVars, toServer, answers, buffer,
                 closed, accepted, pc>>

-----------------------------------------------------------------------------
(* The readable handler *)

ReadFromSockfd ==
  /\ pc = "idle" /\ ~closed
  /\ \E n \in 1 .. Len(toServer) :
       /\ buffer' = buffer \o SubSeq(toServer, 1, n)
       /\ toServer' = SubSeq(toServer, n + 1, Len(toServer))
  /\ pc' = callback
  /\ UNCHANGED <<clientVars, serverVars, answers, closed, accepted>>

\* The end of the stream, once everything before it was read.
OnClose ==
  /\ pc = "idle" /\ ~closed
  /\ left /\ toServer = <<>>
  /\ closed' = TRUE /\ connected' = FALSE
  /\ UNCHANGED <<clientVars, status, partial, callback, bound, parsed, garbled,
                 toServer, answers, buffer, accepted, pc>>

\* Send does nothing once the connection is shut down.
Answer(msg) ==
  answers' = IF connected /\ AnswerTo(msg) # None
               THEN Append(answers, AnswerTo(msg)) ELSE answers

\* ParseShakeHand found its message, of which it took n halves.
Parsed(n) ==
  /\ buffer' = SubSeq(buffer, n + 1, Len(buffer))
  /\ partial' = FALSE
  /\ garbled' = (garbled \/ Head(buffer).msg # status)
  /\ status' = NextStatus(status)
  /\ Answer(status)
  /\ pc' = IF status = "Release" THEN "authenticate" ELSE "shake"
  /\ UNCHANGED <<clientVars, toServer, closed, accepted, callback, connected,
                 bound, parsed>>

Fixed == status \in {"C01", "C2"}
SkipsC3 == /\ status = "CreateStream" /\ form = "c3" /\ ~partial
           /\ buffer # <<>> /\ Head(buffer) = [msg |-> "CreateStream", half |-> 1]

\* C0 and C1, and C2, are skipped by their length.
ParseFixed == pc = "shake" /\ Fixed /\ Len(buffer) >= 2 /\ Parsed(2)

\* A message is decoded; what there is of an incomplete one is taken as well.
ParseMessage ==
  /\ pc = "shake" /\ ~Fixed /\ status # "Success" /\ ~SkipsC3
  /\ IF partial THEN Len(buffer) >= 1 /\ Parsed(1)
                ELSE Len(buffer) >= 2 /\ Head(buffer).half = 1 /\ Parsed(2)

\* Mutant: the decoder does not remember that it holds a part.
ParsePartOfMessageForgets ==
  /\ pc = "shake" /\ ~Fixed /\ status # "Success" /\ ~SkipsC3
  /\ ~partial /\ Len(buffer) = 1 /\ Head(buffer).half = 1
  /\ buffer' = <<>>
  /\ pc' = "idle"
  /\ UNCHANGED <<clientVars, serverVars, toServer, answers, closed, accepted>>

\* ParseHeaderAndBody: no message yet is the same as not enough data.
ParsePartOfMessage ==
  /\ pc = "shake" /\ ~Fixed /\ status # "Success" /\ ~SkipsC3
  /\ ~partial /\ Len(buffer) = 1 /\ Head(buffer).half = 1
  /\ buffer' = <<>> /\ partial' = TRUE
  /\ garbled' = (garbled \/ Head(buffer).msg # status)
  /\ pc' = "idle"
  /\ UNCHANGED <<clientVars, toServer, answers, closed, accepted, status,
                 callback, connected, bound, parsed>>

\* A createStream that begins with 0xc3: 26 bytes are skipped, or what there is
\* of them.
ParseC3 == pc = "shake" /\ SkipsC3 /\ Parsed(IF Len(buffer) >= 2 THEN 2 ELSE 1)

\* The second half of a message in the place of a header: whatever the decoder
\* makes of it, it is not a message.
ParseGarbage ==
  /\ pc = "shake" /\ ~Fixed /\ status # "Success" /\ ~SkipsC3
  /\ ~partial /\ buffer # <<>> /\ Head(buffer).half = 2
  /\ garbled' = TRUE
  /\ buffer' = <<>> /\ pc' = "idle"
  /\ UNCHANGED <<clientVars, toServer, answers, closed, accepted, status,
                 partial, callback, connected, bound, parsed>>

DataNotEnough ==
  /\ pc = "shake" /\ status # "Success"
  /\ buffer = <<>> \/ (Fixed /\ Len(buffer) < 2)
  /\ pc' = "idle"
  /\ UNCHANGED <<clientVars, serverVars, toServer, answers, buffer, closed,
                 accepted>>

\* Mutants: a broadcaster that is not accepted is not shut down; the callback
\* stays the one of the shake hand.
AuthenticateIgnored ==
  /\ pc = "authenticate" /\ pc' = "idle"
  /\ UNCHANGED <<clientVars, serverVars, toServer, answers, buffer, closed,
                 accepted>>
ShakeSuccessNoSwitch ==
  /\ pc = "shake" /\ status = "Success"
  /\ bound' = TRUE
  /\ pc' = "idle"
  /\ UNCHANGED <<clientVars, status, partial, callback, connected, parsed,
                 garbled, toServer, answers, buffer, closed, accepted>>

\* OnConnectionShakeHand returns after the authentication, whatever is left in
\* the buffer.
Authenticate ==
  /\ pc = "authenticate"
  /\ connected' = (connected /\ accepted)
  /\ pc' = "idle"
  /\ UNCHANGED <<clientVars, status, partial, callback, bound, parsed, garbled,
                 toServer, answers, buffer, closed, accepted>>

ShakeSuccess ==
  /\ pc = "shake" /\ status = "Success"
  /\ bound' = TRUE
  /\ callback' = "body"
  /\ pc' = "idle"
  /\ UNCHANGED <<clientVars, status, partial, connected, parsed, garbled,
                 toServer, answers, buffer, closed, accepted>>

\* OnBodyData takes all there is (RtmpCodec tells how).
OnBodyData ==
  /\ pc = "body"
  /\ parsed' = parsed + Len(buffer)
  /\ garbled' = (garbled \/ \E i \in DOMAIN buffer : buffer[i].msg # "Data")
  /\ buffer' = <<>> /\ pc' = "idle"
  /\ UNCHANGED <<clientVars, status, partial, callback, connected, bound,
                 toServer, answers, closed, accepted>>

Handler ==
  \/ ReadFromSockfd \/ OnClose
  \/ ParseFixed \/ ParseMessage \/ ParsePartOfMessage \/ ParseC3 \/ ParseGarbage
  \/ DataNotEnough \/ Authenticate \/ ShakeSuccess \/ OnBodyData

Client == SendGroup \/ ReadAnswer

\* Once the connection is closed nothing is left to do.
Closed == closed /\ UNCHANGED shakeVars

ShakeNext == Handler \/ Client \/ Leave \/ Closed

\* The loop serves a readable socket; the broadcaster goes on as long as it has
\* not left, which it never has to.
ShakeSpec == ShakeInit /\ [][ShakeNext]_shakeVars /\ WF_shakeVars(Handler) /\ WF_shakeVars(Client)

-----------------------------------------------------------------------------
(* Properties *)

Answers == [i \in 1 .. 5 |-> Script[i].answer]
Done5 == [i \in 1 .. 5 |-> Script[i].msgs[Len(Script[i].msgs)]]
Place(msg) == IF msg = "Success" THEN Len(Messages) + 1
              ELSE CHOOSE i \in DOMAIN Messages : Messages[i] = msg

ShakeTypeOK ==
  /\ form \in CreateForms /\ accepted \in Accepted
  /\ groups \in 0 .. Len(Script) + MaxData
  /\ awaits \in {None} \cup Range(Answers)
  /\ got \in 0 .. Len(answers)
  /\ status \in Range(Messages) \cup {"Success"}
  /\ callback \in {"shake", "body"}
  /\ pc \in {"idle", "shake", "authenticate", "body"}
  /\ parsed \in 0 .. 2 * MaxData
  /\ {left, partial, connected, closed, bound, garbled} \subseteq BOOLEAN

\* The answers come in the order of the protocol, each only once and only when
\* the last message of its group was taken whole: for every way TCP may cut the
\* stream (ShakeHand, RtmpPushConnection.cpp).
AnswersFollowMessages ==
  /\ IsPrefix(answers, Answers)
  /\ \A i \in DOMAIN answers : Place(status) > Place(Done5[i])

\* A broadcaster that the authentication callback refuses, and that waits for
\* the answer to createStream, never enters the room map
\* (OnConnectionShakeHand, RtmpPushConnection.cpp): the connection it is refused
\* on is shut down before anything else is parsed.
OnlyAcceptedIsBound == bound => accepted

\* The state machine of the server and the stream stay in step: what is in the
\* place of a message is that message.  Only the 26 bytes skipped for a
\* createStream that begins with 0xc3 may break it (RtmpManager.cpp).
InStep == garbled => form = "c3" /\ status \in {"Publish", "Success"}

\* One thing the code does leaves a broadcaster without its answer for ever: after
\* the authentication nobody parses what is left in the buffer, so that one whose
\* last three messages arrived at once waits (OnConnectionShakeHand).
LeftBehind ==
  /\ pc = "idle" /\ status = "FCPublish"
  /\ buffer = Halves(<<"FCPublish", "CreateStream">>)

\* Every answer a broadcaster waits for comes, however its messages are cut,
\* unless it leaves, is refused, is left behind, or the 26 bytes of a 0xc3 chunk
\* broke the stream.
AnswersCome ==
  \A a \in Range(Answers) :
    awaits = a ~> \/ awaits # a
                  \/ left
                  \/ garbled /\ form = "c3"
                  \/ a = "Result" /\ (~accepted \/ LeftBehind)

\* All the data of a bound broadcaster that stays is parsed.
DataIsParsed == (bound /\ ~garbled) ~> (parsed = 2 * MaxData \/ left)

=============================================================================
