--------------------------- MODULE ProtocolProofs ---------------------------
(***************************************************************************)
(* On a network in time the client reacts only to what answers its last    *)
(* line, for any number of edges and any number of lines in flight.        *)
(***************************************************************************)
EXTENDS Protocol, Induction

AllFresh(q) == \A i \in 1..Len(q) : q[i].fresh

Queues ==
  /\ toServer \in Seq([of : Lines, fresh : BOOLEAN])
  /\ toClient \in Seq([of : Texts, fresh : BOOLEAN])
  /\ outbox \in Seq([of : Texts, fresh : BOOLEAN])
  /\ command \in Lines

\* Nothing on its way answers an earlier line than the last.
OnlyFresh ==
  onTime =>
    /\ ~stale
    /\ AllFresh(toClient) /\ AllFresh(outbox)
    /\ server = "closed" \/ AllFresh(toServer)

\* The client asks its user for a line only when nothing is on its way.
AsksInQuiet == onTime /\ client \in Asking => toClient = <<>> /\ Quiescent

Inv == Queues /\ OnlyFresh /\ AsksInQuiet

-----------------------------------------------------------------------------
LEMMA ElementsOf ==
  ASSUME NEW T, NEW q \in Seq(T)
  PROVE  Len(q) \in Nat /\ \A i \in 1..Len(q) : q[i] \in T
  OBVIOUS

LEMMA HeadIn ==
  ASSUME NEW T, NEW q \in Seq(T), q # <<>>
  PROVE  Head(q) \in T
  OBVIOUS

LEMMA Moves ==
  ASSUME NEW T, NEW q \in Seq(T), NEW r \in Seq(T), q # <<>>
  PROVE  Tail(q) \in Seq(T) /\ Append(r, Head(q)) \in Seq(T)
  OBVIOUS

LEMMA Rest ==
  ASSUME NEW T, NEW q \in Seq(T), NEW k \in 1..Len(q)
  PROVE  SubSeq(q, k + 1, Len(q)) \in Seq(T) /\ q # <<>> /\ q[k] \in T
  OBVIOUS

LEMMA StaleQueue ==
  ASSUME NEW T, NEW q \in Seq([of : T, fresh : BOOLEAN])
  PROVE  /\ Stale(q) \in Seq([of : T, fresh : BOOLEAN])
         /\ q = <<>> => Stale(q) = <<>>
<1>1. Len(q) \in Nat /\ \A i \in 1..Len(q) : q[i] \in [of : T, fresh : BOOLEAN]
  BY ElementsOf
<1>2. \A i \in 1..Len(q) : [q[i] EXCEPT !.fresh = FALSE] \in [of : T, fresh : BOOLEAN]
  BY <1>1
<1> DEFINE s(i) == [q[i] EXCEPT !.fresh = FALSE]
<1>3. [i \in 1..Len(q) |-> s(i)] \in Seq([of : T, fresh : BOOLEAN])
  <2>1. \A i \in 1..Len(q) : s(i) \in [of : T, fresh : BOOLEAN]
    BY <1>2
  <2> HIDE DEF s
  <2> QED
    BY <1>1, <2>1
<1>4. q = <<>> => [i \in 1..Len(q) |-> s(i)] = <<>>
  <2> HIDE DEF s
  <2>1. Len([i \in 1..Len(q) |-> s(i)]) = Len(q)
    BY <1>1
  <2> QED
    BY <1>3, <2>1
<1> QED
  BY <1>3, <1>4 DEF Stale

LEMMA FreshEmpty == AllFresh(<<>>)
  BY DEF AllFresh

LEMMA FreshTail ==
  ASSUME NEW T, NEW q \in Seq([of : T, fresh : BOOLEAN]), AllFresh(q), q # <<>>
  PROVE  AllFresh(Tail(q)) /\ Head(q).fresh
  BY DEF AllFresh

LEMMA FreshAppend ==
  ASSUME NEW T, NEW q \in Seq([of : T, fresh : BOOLEAN]), AllFresh(q), NEW x, x.fresh
  PROVE  AllFresh(Append(q, x))
  BY DEF AllFresh

LEMMA FreshSubSeq ==
  ASSUME NEW T, NEW q \in Seq([of : T, fresh : BOOLEAN]), AllFresh(q), NEW k \in 1..Len(q)
  PROVE  AllFresh(SubSeq(q, k + 1, Len(q)))
<1>1. Len(SubSeq(q, k + 1, Len(q))) = Len(q) - k
  OBVIOUS
<1>2. \A i \in 1..Len(q) - k : SubSeq(q, k + 1, Len(q))[i] = q[k + i]
  OBVIOUS
<1> QED
  BY <1>1, <1>2 DEF AllFresh

\* The start of sending a line, from where all is quiet.
LEMMA SendLineKeepsInv ==
  ASSUME Queues, NEW line \in Lines, NEW then \in Collecting, SendLine(line, then),
         onTime => toClient = <<>> /\ Quiescent,
         UNCHANGED <<onTime, server>>, command' \in Lines
  PROVE  Inv'
<1>1. Queues'
  <2>1. /\ Stale(toServer) \in Seq([of : Lines, fresh : BOOLEAN])
        /\ Stale(toClient) \in Seq([of : Texts, fresh : BOOLEAN])
        /\ Stale(outbox) \in Seq([of : Texts, fresh : BOOLEAN])
    BY StaleQueue DEF Queues
  <2>2. Fresh(line) \in [of : Lines, fresh : BOOLEAN]
    BY DEF Fresh
  <2>3. Append(Stale(toServer), Fresh(line)) \in Seq([of : Lines, fresh : BOOLEAN])
    BY ONLY <2>1, <2>2
  <2>4. toServer' \in {toServer, Append(Stale(toServer), Fresh(line))}
        /\ toClient' = Stale(toClient) /\ outbox' = Stale(outbox)
    BY DEF SendLine
  <2> QED
    BY <2>1, <2>3, <2>4 DEF Queues
<1>2. client' \notin Asking
  BY DEF SendLine, Collecting, Asking
<1>3. ~stale'
  BY DEF SendLine, Forget
<1>4. ASSUME onTime
      PROVE  toClient' = <<>> /\ outbox' = <<>> /\ (server = "closed" \/ AllFresh(toServer'))
  <2>1. toClient = <<>> /\ outbox = <<>> /\ (toServer = <<>> \/ server = "closed")
    BY <1>4 DEF Quiescent
  <2>2. Stale(toClient) = <<>> /\ Stale(outbox) = <<>>
        /\ (toServer = <<>> => Stale(toServer) = <<>>)
    BY <2>1, StaleQueue DEF Queues
  <2>3. AllFresh(Append(<<>>, Fresh(line)))
    BY DEF AllFresh, Fresh
  <2> QED
    BY <2>1, <2>2, <2>3 DEF SendLine
<1> QED
  BY <1>1, <1>2, <1>3, <1>4, FreshEmpty DEF Inv, OnlyFresh, AsksInQuiet
\* A reply in answer to a line.
LEMMA GoesKeepsInv ==
  ASSUME Inv, NEW label, NEW texts \in Seq(Texts), NEW fresh \in BOOLEAN,
         Goes(label, texts, fresh) \/ (server' = label /\ Replies(texts, fresh)),
         label # "queued",
         onTime => fresh \/ texts = <<>>,
         onTime => client \notin Asking,
         UNCHANGED <<onTime, toClient, clientVars>>,
         toServer' \in Seq([of : Lines, fresh : BOOLEAN]),
         onTime => label = "closed" \/ AllFresh(toServer')
  PROVE  Inv'
<1>1. outbox' = [i \in 1..Len(texts) |-> [of |-> texts[i], fresh |-> fresh]] /\ server' = label
  BY DEF Goes, Replies
<1>2. Len(texts) \in Nat /\ \A i \in 1..Len(texts) : texts[i] \in Texts
  OBVIOUS
<1> DEFINE s(i) == [of |-> texts[i], fresh |-> fresh]
<1>3. \A i \in 1..Len(texts) : s(i) \in [of : Texts, fresh : BOOLEAN] /\ s(i).fresh = fresh
  BY <1>2
<1>4. outbox' = [i \in 1..Len(texts) |-> s(i)]
  BY <1>1
<1> HIDE DEF s
<1>5. outbox' \in Seq([of : Texts, fresh : BOOLEAN])
  BY <1>2, <1>3, <1>4
<1>6. onTime => AllFresh(outbox')
  <2>1. Len(outbox') = Len(texts) /\ \A i \in 1..Len(texts) : outbox'[i] = s(i)
    BY <1>2, <1>4
  <2>2. texts = <<>> => Len(texts) = 0
    OBVIOUS
  <2> QED
    BY <2>1, <2>2, <1>3 DEF AllFresh
<1> QED
  BY <1>1, <1>5, <1>6 DEF Inv, Queues, OnlyFresh, AsksInQuiet, clientVars

-----------------------------------------------------------------------------
(***************************************************************************)
(* The client's steps.                                                     *)
(***************************************************************************)
\* A step of the client that sends nothing, into a question only when all is
\* quiet.
LEMMA StaysKeepsInv ==
  ASSUME Inv, UNCHANGED <<onTime, net, serverVars>>, command' \in Lines,
         onTime => ~stale',
         client' \in Asking /\ onTime => toClient = <<>> /\ Quiescent
  PROVE  Inv'
  BY DEF Inv, Queues, OnlyFresh, AsksInQuiet, Quiescent, net, serverVars

LEMMA CollectKeepsInv == ASSUME Inv, Collect PROVE Inv'
<1>1. /\ client \in Collecting /\ client' = client /\ toClient # <<>>
      /\ toClient' = Tail(toClient) /\ stale' = (stale \/ ~Head(toClient).fresh)
      /\ UNCHANGED <<onTime, toServer, server, outbox, command>>
  BY DEF Collect, serverVars
<1>2. client' \notin Asking
  BY <1>1 DEF Collecting, Asking
<1>3. toClient' \in Seq([of : Texts, fresh : BOOLEAN])
  BY <1>1 DEF Inv, Queues
<1>4. onTime => AllFresh(toClient') /\ ~stale'
  BY <1>1, FreshTail DEF Inv, Queues, OnlyFresh
<1> QED
  BY <1>1, <1>2, <1>3, <1>4 DEF Inv, Queues, OnlyFresh, AsksInQuiet

LEMMA ReactsQuietly ==
  ASSUME Inv, Stay, \/ Return \/ React \/ \E q : Asks(q)
                    \/ UNCHANGED stale,
         onTime => toClient = <<>> /\ Quiescent
  PROVE  Inv'
  BY StaysKeepsInv DEF Inv, Queues, OnlyFresh, Stay, Return, React, Asks, Forget

LEMMA ClientKeepsInv == ASSUME Inv, ClientStep PROVE Inv'
<1>1. CASE Prompt
  BY <1>1, SendLineKeepsInv DEF Prompt, Inv, AsksInQuiet, Asking, Collecting
<1>2. CASE Collect
  BY <1>2, CollectKeepsInv
<1>3. CASE RequestAnswered
  BY <1>3, ReactsQuietly DEF RequestAnswered, Silence
<1>4. CASE OtherAnswered
  BY <1>4, ReactsQuietly DEF OtherAnswered, Silence
<1>5. CASE NextMetric
  BY <1>5, SendLineKeepsInv DEF NextMetric, Inv, Queues, Silence, Collecting, Line, Lines
<1>6. CASE AnswerRetry
  BY <1>6, SendLineKeepsInv, ReactsQuietly
  DEF AnswerRetry, Inv, Queues, AsksInQuiet, Asking, Collecting
<1>7. CASE AnswerEdges
  BY <1>7, SendLineKeepsInv, ReactsQuietly
  DEF AnswerEdges, Inv, Queues, AsksInQuiet, Asking, Collecting, Lines
<1>8. CASE AnswerEdge
  BY <1>8, SendLineKeepsInv DEF AnswerEdge, Inv, Queues, AsksInQuiet, Asking, Collecting
<1>9. CASE AnswerLine
  BY <1>9, SendLineKeepsInv DEF AnswerLine, Inv, Queues, AsksInQuiet, Asking, Collecting
<1>10. CASE AnswerMetrics
  BY <1>10, SendLineKeepsInv, ReactsQuietly
  DEF AnswerMetrics, Inv, Queues, AsksInQuiet, Asking, Collecting, Line, Lines
<1> QED
  BY <1>1, <1>2, <1>3, <1>4, <1>5, <1>6, <1>7, <1>8, <1>9, <1>10 DEF ClientStep

-----------------------------------------------------------------------------
(***************************************************************************)
(* The session's steps.                                                    *)
(***************************************************************************)
LEMMA WriteKeepsInv == ASSUME Inv, WriteReply PROVE Inv'
<1>1. /\ outbox # <<>> /\ outbox' = Tail(outbox)
      /\ toClient' = Append(toClient, Head(outbox))
      /\ UNCHANGED <<onTime, toServer, server, client, command, stale>>
  BY DEF WriteReply, clientVars
<1>2. /\ outbox' \in Seq([of : Texts, fresh : BOOLEAN])
      /\ toClient' \in Seq([of : Texts, fresh : BOOLEAN])
  BY <1>1, Moves DEF Inv, Queues
<1>3. onTime => AllFresh(outbox') /\ AllFresh(toClient')
  BY <1>1, FreshTail, FreshAppend DEF Inv, Queues, OnlyFresh
<1>4. onTime => client \notin Asking
  BY <1>1 DEF Inv, AsksInQuiet, Quiescent
<1> QED
  BY <1>1, <1>2, <1>3, <1>4 DEF Inv, Queues, OnlyFresh, AsksInQuiet

LEMMA StartKeepsInv == ASSUME Inv, StartSession PROVE Inv'
<1>1. onTime => client \notin Asking
  BY DEF StartSession, Inv, AsksInQuiet, Quiescent
<1>2. Goes("read", <<"Enter">>, TRUE) /\ UNCHANGED <<onTime, toServer, toClient, clientVars>>
  BY DEF StartSession, net
<1>3. <<"Enter">> \in Seq(Texts)
  BY DEF Texts
<1>4. /\ toServer' \in Seq([of : Lines, fresh : BOOLEAN])
      /\ onTime => AllFresh(toServer')
  BY <1>2 DEF StartSession, Inv, Queues, OnlyFresh
<1> QED
  BY ONLY <1>1, <1>2, <1>3, <1>4, GoesKeepsInv, Inv

\* What a session does with a line: it answers it and goes on somewhere.
Answers(fresh) ==
  \E label \in Waiting \cup {"read", "closed"}, texts \in Seq(Texts) :
    Goes(label, texts, fresh) \/ (server' = label /\ Replies(texts, fresh))

LEMMA TextsOf ==
  /\ <<>> \in Seq(Texts) /\ <<"Enter">> \in Seq(Texts) /\ <<"plain">> \in Seq(Texts)
  /\ <<"busy">> \in Seq(Texts) /\ <<"initialized">> \in Seq(Texts)
  /\ <<"algorithm">> \in Seq(Texts) /\ <<"mst">> \in Seq(Texts)
  /\ <<"plain", "Enter">> \in Seq(Texts) /\ <<"Enter", "plain">> \in Seq(Texts)
  BY DEF Texts

LEMMA HandleAnswers ==
  ASSUME NEW line, NEW fresh, Handle(line, fresh)
  PROVE  Answers(fresh)
<1> DEFINE Labels == Waiting \cup {"read", "closed"}
<1>1. ASSUME NEW label \in Labels, NEW texts \in Seq(Texts), Goes(label, texts, fresh)
      PROVE  Answers(fresh)
  BY <1>1 DEF Answers
<1>2. ASSUME NEW label \in Labels, NEW texts \in Seq(Texts), server' = label, Replies(texts, fresh)
      PROVE  Answers(fresh)
  BY <1>2 DEF Answers
<1>3. /\ "read" \in Labels /\ "closed" \in Labels /\ "initEdges" \in Labels
      /\ "initEdge" \in Labels /\ "addVtxTarget" \in Labels
      /\ "addVtxWeight" \in Labels /\ "mstChoice" \in Labels
  BY DEF Waiting
<1> HIDE DEF Labels
<1>4. CASE Command(line, fresh)
  BY <1>1, <1>3, <1>4, TextsOf DEF Command
<1>5. CASE EdgeCount(line, fresh)
  BY <1>1, <1>2, <1>3, <1>5, TextsOf DEF EdgeCount
<1>6. CASE EdgeLine(line, fresh)
  BY <1>1, <1>2, <1>3, <1>6, TextsOf DEF EdgeLine
<1>7. CASE Target(line, fresh)
  BY <1>1, <1>3, <1>7, TextsOf DEF Target
<1>8. CASE Choice(line, fresh)
  BY <1>1, <1>3, <1>8, TextsOf DEF Choice
<1>9. CASE Goes("read", <<"plain">>, fresh)
  BY <1>1, <1>3, <1>9, TextsOf
<1> QED
  BY <1>4, <1>5, <1>6, <1>7, <1>8, <1>9 DEF Handle

LEMMA ReadLineKeepsInv == ASSUME Inv, ReadLine PROVE Inv'
<1>1. PICK k \in 1..Len(toServer) :
        /\ Handle(Joined(SubSeq(toServer, 1, k)), toServer[k].fresh)
        /\ toServer' = SubSeq(toServer, k + 1, Len(toServer))
  BY DEF ReadLine
<1> DEFINE fresh == toServer[k].fresh
<1>2. Answers(fresh)
  BY <1>1, HandleAnswers
<1>3. server # "closed" /\ server # "queued"
  BY <1>1 DEF Handle
<1>4. /\ Len(toServer) \in Nat /\ toServer # <<>> /\ fresh \in BOOLEAN
      /\ toServer' \in Seq([of : Lines, fresh : BOOLEAN])
  <2> DEFINE T == [of : Lines, fresh : BOOLEAN]
  <2>1. toServer \in Seq(T)
    BY DEF Inv, Queues
  <2>2. \A x \in T : x.fresh \in BOOLEAN
    OBVIOUS
  <2> HIDE DEF T
  <2>3. /\ Len(toServer) \in Nat /\ toServer # <<>> /\ toServer[k] \in T
        /\ SubSeq(toServer, k + 1, Len(toServer)) \in Seq(T)
    BY <2>1, ElementsOf, Rest
  <2> QED
    BY <1>1, <2>2, <2>3 DEF T
<1>5. onTime => AllFresh(toServer) /\ fresh /\ AllFresh(toServer')
  BY <1>1, <1>3, <1>4, FreshSubSeq DEF Inv, Queues, OnlyFresh, AllFresh
<1>6. onTime => client \notin Asking
  BY <1>3, <1>4 DEF Inv, AsksInQuiet, Quiescent
<1>7. UNCHANGED <<onTime, toClient, clientVars>>
  BY DEF ReadLine
<1>8. PICK label \in Waiting \cup {"read", "closed"}, texts \in Seq(Texts) :
        Goes(label, texts, fresh) \/ (server' = label /\ Replies(texts, fresh))
  BY <1>2 DEF Answers
<1>9. label # "queued"
  BY DEF Waiting
<1> HIDE DEF fresh
<1> QED
  BY ONLY <1>4, <1>5, <1>6, <1>7, <1>8, <1>9, GoesKeepsInv, Inv

LEMMA ReadNothingKeepsInv == ASSUME Inv, ReadNothing PROVE Inv'
<1>1. client \notin Asking
  BY DEF ReadNothing, Gone, Asking
<1>2. Goes("closed", <<>>, FALSE) /\ UNCHANGED <<onTime, toServer, toClient, clientVars>>
  BY DEF ReadNothing, net
<1>3. toServer' \in Seq([of : Lines, fresh : BOOLEAN])
  BY <1>2 DEF Inv, Queues
<1> QED
  BY ONLY <1>1, <1>2, <1>3, TextsOf, GoesKeepsInv, Inv

-----------------------------------------------------------------------------
LEMMA InitInv == Init => Inv
  BY FreshEmpty
  DEF Init, Inv, Queues, OnlyFresh, AsksInQuiet, Asking, Line, Lines

LEMMA NextKeepsInv == Inv /\ [Next]_vars => Inv'
<1>1. ASSUME Inv, UNCHANGED vars PROVE Inv'
  BY <1>1
  DEF Inv, Queues, OnlyFresh, AsksInQuiet, Quiescent, vars, net, serverVars, clientVars, AllFresh
<1> QED
  BY <1>1, ClientKeepsInv, WriteKeepsInv, StartKeepsInv, ReadLineKeepsInv, ReadNothingKeepsInv
  DEF Next, ServerStep

\* The client and the server, however many edges are announced and however many
\* lines are in flight: on a network in time the client never takes the answer
\* to one line for the answer to the next.
THEOREM ReplyMatchesCorrect == SafeSpec => []ReplyMatches
<1>1. Inv => ReplyMatches
  BY DEF Inv, OnlyFresh, ReplyMatches
<1> QED
  BY <1>1, InitInv, NextKeepsInv, PTL DEF SafeSpec

-----------------------------------------------------------------------------
(***************************************************************************)
(* That the two stay in step rests on what the words the client looks for  *)
(* say of where the session is.                                            *)
(***************************************************************************)
OfQueue(q) == {q[i].of : i \in 1..Len(q)}

\* The words of the reply to the last line, as far as there is one yet.
Said == heard \cup OfQueue(toClient) \cup OfQueue(outbox)

Pending == toServer # <<>> /\ server # "closed"

\* The session answers a line before it reads another.
OneAtATime ==
  /\ server = "queued" => client = "menu" /\ toServer = <<>> /\ Said = {}
  /\ Pending => Len(toServer) = 1 /\ Said = {}
  /\ client \in Asking \cup Gone => toClient = <<>> /\ Quiescent
  /\ client \in (Asking \ {"askRetry"}) \cup Gone => heard = {}

WordsTellState ==
  /\ "initialized" \in Said => server = "initEdges"
  /\ "algorithm" \in Said => server = "mstChoice"

CommandAnswered ==
  /\ client = "request" /\ Pending => toServer[1].of = command
  /\ client \in {"request", "askRetry"} /\ command.kind = "add_vtx" /\ "Enter" \in Said =>
       server = "addVtxTarget"

\* The two count the edges alike.
CountsAgree ==
  /\ remaining \in Int
  /\ client \in {"edgesReply", "edgeReply"} /\ toServer = <<>> /\ remaining > 0 =>
       server = "initEdge" /\ left = remaining
  /\ client = "edgesReply" /\ toServer # <<>> =>
       server = "initEdges" /\ toServer[1].of = [kind |-> "edges", n |-> remaining]
  /\ client = "edgeReply" /\ toServer # <<>> =>
       server = "initEdge" /\ left = remaining + 1

Dialogue == OneAtATime /\ WordsTellState /\ CommandAnswered /\ CountsAgree /\ InStep

DialogueInv == onTime => Dialogue

LEMMA OfEmpty == OfQueue(<<>>) = {}
  BY DEF OfQueue

LEMMA OfTail ==
  ASSUME NEW T, NEW q \in Seq(T), q # <<>>
  PROVE  OfQueue(q) = {Head(q).of} \cup OfQueue(Tail(q))
<1>1. /\ Len(q) \in Nat \ {0} /\ Len(Tail(q)) = Len(q) - 1 /\ Head(q) = q[1]
      /\ \A i \in 1..Len(q) - 1 : Tail(q)[i] = q[i + 1]
  OBVIOUS
<1>2. \A i \in 1..Len(q) : i = 1 \/ (i - 1 \in 1..Len(q) - 1 /\ Tail(q)[i - 1] = q[i])
  BY <1>1
<1>3. 1 \in 1..Len(q) /\ \A i \in 1..Len(q) - 1 : i + 1 \in 1..Len(q)
  BY <1>1
<1>4. ASSUME NEW x \in OfQueue(q), x # Head(q).of PROVE x \in OfQueue(Tail(q))
  <2>1. PICK i \in 1..Len(q) : x = q[i].of
    BY DEF OfQueue
  <2>2. i - 1 \in 1..Len(q) - 1 /\ Tail(q)[i - 1].of = x
    BY <1>1, <1>2, <1>4, <2>1
  <2> QED
    BY <1>1, <2>2 DEF OfQueue
<1>5. ASSUME NEW x \in OfQueue(Tail(q)) PROVE x \in OfQueue(q)
  <2>1. PICK i \in 1..Len(q) - 1 : x = Tail(q)[i].of
    BY <1>1 DEF OfQueue
  <2> QED
    BY <1>1, <1>3, <2>1 DEF OfQueue
<1>6. Head(q).of \in OfQueue(q)
  BY <1>1, <1>3 DEF OfQueue
<1> QED
  BY <1>4, <1>5, <1>6

LEMMA OfAppend ==
  ASSUME NEW T, NEW q \in Seq(T), NEW x \in T
  PROVE  OfQueue(Append(q, x)) = OfQueue(q) \cup {x.of}
<1>1. /\ Len(q) \in Nat /\ Len(Append(q, x)) = Len(q) + 1
      /\ Append(q, x)[Len(q) + 1] = x
      /\ \A i \in 1..Len(q) : Append(q, x)[i] = q[i]
  OBVIOUS
<1>2. 1..Len(q) + 1 = 1..Len(q) \cup {Len(q) + 1}
  BY <1>1
<1> QED
  BY <1>1, <1>2 DEF OfQueue

-----------------------------------------------------------------------------
\* The client sends a line when all is quiet.
LEMMA SendsInStep ==
  ASSUME Inv, Dialogue, onTime, NEW line \in Lines, NEW then \in Collecting,
         SendLine(line, then), toClient = <<>>, Quiescent,
         UNCHANGED <<onTime, server, left>>, remaining' \in Int,
         then = "request" => line = command',
         then = "edgesReply" => server = "initEdges" /\ line = [kind |-> "edges", n |-> remaining'],
         then = "edgeReply" => server = "initEdge" /\ left = remaining' + 1
  PROVE  Dialogue'
<1>1. outbox = <<>> /\ server # "queued" /\ (toServer = <<>> \/ server = "closed")
  BY DEF Quiescent
<1>2. toClient' = <<>> /\ outbox' = <<>> /\ heard' = {}
  BY <1>1, StaleQueue DEF SendLine, Forget, Inv, Queues
<1>3. Said' = {}
  BY <1>2, OfEmpty DEF Said
<1>4. \/ /\ client' = then /\ toServer' # <<>>
         /\ server # "closed" => Len(toServer') = 1 /\ toServer'[1].of = line
      \/ client' = "killed" /\ server = "closed"
  <2>1. /\ Append(Stale(toServer), Fresh(line)) # <<>>
        /\ toServer = <<>> => Append(Stale(toServer), Fresh(line)) = <<Fresh(line)>>
    <3>1. /\ Stale(toServer) \in Seq([of : Lines, fresh : BOOLEAN])
          /\ toServer = <<>> => Stale(toServer) = <<>>
      BY StaleQueue DEF Inv, Queues
    <3>2. Append(<<>>, Fresh(line)) = <<Fresh(line)>>
      OBVIOUS
    <3>3. ASSUME NEW T, NEW q \in Seq(T), NEW x PROVE Append(q, x) # <<>>
      OBVIOUS
    <3> QED
      BY <3>1, <3>2, <3>3
  <2>2. Fresh(line).of = line
    BY DEF Fresh
  <2>3. Len(<<Fresh(line)>>) = 1 /\ <<Fresh(line)>>[1] = Fresh(line)
    OBVIOUS
  <2>4. \/ client' = then /\ toServer' = Append(Stale(toServer), Fresh(line))
        \/ client' = "killed" /\ server = "closed"
    BY DEF SendLine
  <2> QED
    BY ONLY <1>1, <2>1, <2>2, <2>3, <2>4
<1>5. then \notin Asking \cup Gone /\ then # "askRetry" /\ "killed" \notin Asking \cup Collecting
  BY DEF Collecting, Asking, Gone
<1>6. OneAtATime'
  BY <1>1, <1>2, <1>3, <1>4, <1>5 DEF OneAtATime, Pending, Quiescent
<1>7. CommandAnswered'
  BY <1>3, <1>4, <1>5 DEF CommandAnswered, Pending, Asking, Collecting
<1>8. CountsAgree'
  BY <1>4, <1>5 DEF CountsAgree, Collecting
<1>9. InStep'
  BY <1>4, <1>5 DEF InStep, Asking
<1> QED
  BY <1>3, <1>6, <1>7, <1>8, <1>9 DEF Dialogue, WordsTellState

\* The client turns to its user, or leaves, when all is quiet.
LEMMA TurnsInStep ==
  ASSUME Inv, Dialogue, onTime, toClient = <<>>, Quiescent,
         Stay, remaining' \in Int,
         heard' = {} \/ (heard' = heard /\ client = "request" /\ client' = "askRetry"),
         client' \in Asking \cup {"ended", "finalReply"},
         InStep'
  PROVE  Dialogue'
<1>1. outbox = <<>> /\ server # "queued" /\ (toServer = <<>> \/ server = "closed")
  BY DEF Quiescent
<1>2. UNCHANGED <<onTime, toServer, toClient, server, left, outbox, command>>
  BY DEF Stay, net, serverVars
<1>3. Said' \subseteq Said /\ (heard' = {} => Said' = {})
  BY <1>1, <1>2, OfEmpty DEF Said
<1>4. client' \notin {"request", "edgesReply", "edgeReply"}
  BY DEF Asking
<1>5. OneAtATime'
  BY <1>1, <1>2, <1>3, <1>4 DEF Dialogue, OneAtATime, Pending, Quiescent, Asking, Gone
<1>6. WordsTellState'
  BY <1>2, <1>3 DEF Dialogue, WordsTellState
<1>7. CommandAnswered'
  BY <1>2, <1>3, <1>4 DEF Dialogue, CommandAnswered
<1>8. CountsAgree'
  BY <1>4 DEF CountsAgree
<1> QED
  BY <1>5, <1>6, <1>7, <1>8 DEF Dialogue

\* What the client makes of a complete response.
LEMMA ReactsInStep ==
  ASSUME Inv, Dialogue, onTime, toClient = <<>>, Quiescent, Stay, UNCHANGED remaining,
         client \in {"request", "askRetry"}, React
  PROVE  Dialogue'
<1>1. heard' = {} /\ client' \in Asking \cup {"ended"}
  BY DEF React, Asks, Return, Forget, Asking
<1>2. /\ client' = "askEdges" => "initialized" \in heard
      /\ client' = "askAlgorithm" => "algorithm" \in heard
      /\ client' = "askInput" => "Enter" \in heard
      /\ client' # "askEdge"
  BY DEF React, Asks, Return
<1>3. heard \subseteq Said /\ UNCHANGED <<onTime, server, command>>
  BY DEF Said, Stay, serverVars
<1>4. InStep'
  BY <1>2, <1>3 DEF Dialogue, WordsTellState, CommandAnswered, InStep
<1> QED
  BY <1>1, <1>4, TurnsInStep DEF Dialogue, CountsAgree

LEMMA CollectInStep == ASSUME Inv, Dialogue, onTime, Collect PROVE Dialogue'
<1>1. /\ client \in Collecting /\ toClient # <<>> /\ toClient' = Tail(toClient)
      /\ heard' = heard \cup ({Head(toClient).of} \ {"plain"})
      /\ UNCHANGED <<onTime, toServer, server, left, outbox, client, command, remaining>>
  BY DEF Collect, serverVars
<1>2. OfQueue(toClient) = {Head(toClient).of} \cup OfQueue(toClient')
  BY <1>1, OfTail DEF Inv, Queues
<1>3. Said' \subseteq Said
  BY <1>1, <1>2 DEF Said
<1>4. client \notin Asking \cup Gone
  BY <1>1 DEF Collecting, Asking, Gone
<1> QED
  BY <1>1, <1>3, <1>4
  DEF Dialogue, OneAtATime, WordsTellState, CommandAnswered, CountsAgree, InStep, Pending, Asking

LEMMA ClientInStep == ASSUME Inv, Dialogue, onTime, ClientStep PROVE Dialogue'
<1>1. CASE Prompt
  <2>1. /\ toClient = <<>> /\ Quiescent
    BY <1>1 DEF Prompt, Dialogue, OneAtATime, Asking
  <2>2. PICK line \in Lines : SendLine(line, "request") /\ command' = line
    BY <1>1 DEF Prompt
  <2> QED
    BY <1>1, <2>1, <2>2, SendsInStep DEF Prompt, Dialogue, CountsAgree, Collecting
<1>2. CASE Collect
  BY <1>2, CollectInStep
<1>3. CASE RequestAnswered
  <2>1. toClient = <<>> /\ Quiescent /\ client = "request" /\ Stay /\ UNCHANGED remaining
    BY <1>3 DEF RequestAnswered, Silence
  <2>2. CASE React
    BY <2>1, <2>2, ReactsInStep
  <2>3. CASE client' = "askRetry" /\ UNCHANGED heard
    BY <2>1, <2>3, TurnsInStep DEF InStep, Asking, Dialogue, CountsAgree
  <2> QED
    BY <1>3, <2>2, <2>3 DEF RequestAnswered
<1>4. CASE OtherAnswered
  <2>1. toClient = <<>> /\ Quiescent /\ Stay /\ UNCHANGED remaining /\ heard' = {}
    BY <1>4 DEF OtherAnswered, Silence, Asks, Return, Forget
  <2>2. CASE client' \in {"prompt", "ended", "finalReply"}
    BY <2>1, <2>2, TurnsInStep DEF InStep, Asking, Dialogue, CountsAgree
  <2>3. CASE /\ client' = "askEdge" /\ remaining > 0
             /\ client \in {"edgesReply", "edgeReply"}
    <3>1. server = "initEdge" /\ left = remaining
      BY <2>1, <2>3 DEF Quiescent, Dialogue, CountsAgree
    <3>2. InStep'
      BY <2>1, <2>3, <3>1 DEF InStep, Stay, serverVars
    <3> QED
      BY <2>1, <2>3, <3>2, TurnsInStep DEF Asking, Dialogue, CountsAgree
  <2> QED
    BY <1>4, <2>2, <2>3 DEF OtherAnswered, Silence, Return, Asks
<1>5. CASE NextMetric
  <2>1. Line("query") \in Lines
    BY DEF Line, Lines
  <2>2. toClient = <<>> /\ Quiescent /\ remaining' = remaining - 1 /\ remaining \in Int
        /\ SendLine(Line("query"), "metricReply") /\ UNCHANGED <<onTime, server, left>>
    BY <1>5 DEF NextMetric, Silence, Dialogue, CountsAgree
  <2> QED
    BY <2>1, <2>2, SendsInStep DEF Collecting
<1>6. CASE AnswerRetry
  <2>1. toClient = <<>> /\ Quiescent /\ client = "askRetry" /\ remaining' = remaining
    BY <1>6 DEF AnswerRetry, Dialogue, OneAtATime, Asking
  <2>2. CASE SendLine(command, "request") /\ UNCHANGED <<onTime, server, left, command>>
    BY <2>1, <2>2, SendsInStep DEF Inv, Queues, Dialogue, CountsAgree, Collecting
  <2>3. CASE React /\ Stay
    BY <2>1, <2>3, ReactsInStep
  <2> QED
    BY <1>6, <2>2, <2>3 DEF AnswerRetry
<1>7. CASE AnswerEdges
  <2>1. toClient = <<>> /\ Quiescent /\ server = "initEdges"
    BY <1>7 DEF AnswerEdges, Dialogue, OneAtATime, InStep, Asking
  <2>2. CASE Return /\ UNCHANGED remaining /\ Stay
    BY <2>1, <2>2, TurnsInStep DEF Return, Forget, InStep, Asking, Dialogue, CountsAgree
  <2>3. ASSUME NEW n \in Counts, remaining' = n,
               SendLine([kind |-> "edges", n |-> n], "edgesReply"),
               UNCHANGED <<onTime, server, left>>
        PROVE  Dialogue'
    <3>1. [kind |-> "edges", n |-> n] \in Lines
      BY DEF Lines
    <3>2. n \in Int
      BY DEF Counts
    <3> QED
      BY <2>1, <2>3, <3>1, <3>2, SendsInStep DEF Collecting
  <2> QED
    BY <1>7, <2>2, <2>3 DEF AnswerEdges
<1>8. CASE AnswerEdge
  <2>1. /\ toClient = <<>> /\ Quiescent /\ server = "initEdge" /\ left = remaining
        /\ remaining \in Int /\ remaining' = remaining - 1
        /\ UNCHANGED <<onTime, server, left>>
    BY <1>8 DEF AnswerEdge, Dialogue, OneAtATime, CountsAgree, InStep, Asking
  <2>2. PICK line \in Lines : SendLine(line, "edgeReply")
    BY <1>8 DEF AnswerEdge
  <2> QED
    BY <2>1, <2>2, SendsInStep DEF Collecting
<1>9. CASE AnswerLine
  <2>1. /\ toClient = <<>> /\ Quiescent /\ UNCHANGED <<onTime, server, left, remaining>>
    BY <1>9 DEF AnswerLine, Dialogue, OneAtATime, Asking
  <2>2. PICK line \in Lines : SendLine(line, "extraReply")
    BY <1>9 DEF AnswerLine
  <2> QED
    BY <2>1, <2>2, SendsInStep DEF Collecting, Dialogue, CountsAgree
<1>10. CASE AnswerMetrics
  <2>1. toClient = <<>> /\ Quiescent
    BY <1>10 DEF AnswerMetrics, Dialogue, OneAtATime, Asking
  <2>2. CASE Return /\ UNCHANGED remaining /\ Stay
    BY <2>1, <2>2, TurnsInStep DEF Return, Forget, InStep, Asking, Dialogue, CountsAgree
  <2>3. CASE remaining' = 3 /\ SendLine(Line("query"), "metricReply")
             /\ UNCHANGED <<onTime, server, left>>
    BY <2>1, <2>3, SendsInStep DEF Collecting, Line, Lines
  <2> QED
    BY <1>10, <2>2, <2>3 DEF AnswerMetrics
<1> QED
  BY <1>1, <1>2, <1>3, <1>4, <1>5, <1>6, <1>7, <1>8, <1>9, <1>10 DEF ClientStep

-----------------------------------------------------------------------------
LEMMA WriteInStep == ASSUME Inv, Dialogue, onTime, WriteReply PROVE Dialogue'
<1>1. /\ outbox # <<>> /\ outbox' = Tail(outbox)
      /\ toClient' = Append(toClient, Head(outbox))
      /\ UNCHANGED <<onTime, toServer, server, left, client, command, remaining, heard>>
  BY DEF WriteReply, clientVars
<1>2. Head(outbox) \in [of : Texts, fresh : BOOLEAN]
  <2> DEFINE T == [of : Texts, fresh : BOOLEAN]
  <2>1. outbox \in Seq(T)
    BY DEF Inv, Queues
  <2> HIDE DEF T
  <2>2. Head(outbox) \in T
    BY <1>1, <2>1
  <2> QED
    BY <2>2 DEF T
<1>3. /\ OfQueue(outbox) = {Head(outbox).of} \cup OfQueue(outbox')
      /\ OfQueue(toClient') = OfQueue(toClient) \cup {Head(outbox).of}
  BY <1>1, <1>2, OfTail, OfAppend DEF Inv, Queues
<1>4. Said' = Said
  BY <1>1, <1>3 DEF Said
<1>5. client \notin Asking \cup Gone
  BY <1>1 DEF Dialogue, OneAtATime, Quiescent
<1> QED
  BY <1>1, <1>4, <1>5
  DEF Dialogue, OneAtATime, WordsTellState, CommandAnswered, CountsAgree, InStep, Pending, Asking

\* A reply that a session is about to write.
LEMMA SaidReplies ==
  ASSUME NEW texts \in Seq(Texts), NEW fresh, Replies(texts, fresh),
         heard' = {}, toClient' = <<>>
  PROVE  Said' = ToSet(texts)
<1>1. outbox' = [i \in 1..Len(texts) |-> [of |-> texts[i], fresh |-> fresh]]
  BY DEF Replies
<1>2. Len(texts) \in Nat /\ DOMAIN texts = 1..Len(texts)
  OBVIOUS
<1> DEFINE s(i) == [of |-> texts[i], fresh |-> fresh]
<1>3. \A i \in 1..Len(texts) : s(i).of = texts[i]
  OBVIOUS
<1>4. outbox' = [i \in 1..Len(texts) |-> s(i)]
  BY <1>1
<1> HIDE DEF s
<1>5. Len(outbox') = Len(texts) /\ \A i \in 1..Len(texts) : outbox'[i].of = texts[i]
  BY <1>2, <1>3, <1>4
<1>6. OfQueue(outbox') = ToSet(texts)
  BY <1>2, <1>5 DEF OfQueue, ToSet
<1> QED
  BY <1>6, OfEmpty DEF Said

LEMMA StartInStep == ASSUME Inv, Dialogue, onTime, StartSession PROVE Dialogue'
<1>1. /\ client = "menu" /\ toServer = <<>> /\ heard = {} /\ Said = {}
      /\ server' = "read" /\ Replies(<<"Enter">>, TRUE)
      /\ UNCHANGED <<onTime, toServer, toClient, client, command, remaining, heard>>
  BY DEF StartSession, Dialogue, OneAtATime, Said, Goes, net, clientVars
<1>2. toClient = <<>>
  <2>1. ASSUME toClient # <<>> PROVE FALSE
    <3>1. OfQueue(toClient) # {}
      BY <2>1, OfTail DEF Inv, Queues
    <3> QED
      BY <1>1, <3>1 DEF Said
  <2> QED
    BY <2>1
<1>3. ToSet(<<"Enter">>) = {"Enter"}
  BY DEF ToSet
<1>4. Said' = {"Enter"}
  BY <1>1, <1>2, <1>3, SaidReplies, TextsOf
<1> QED
  BY <1>1, <1>4
  DEF Dialogue, OneAtATime, WordsTellState, CommandAnswered, CountsAgree, InStep, Pending, Asking,
      Gone

LEMMA ReadNothingInStep == ASSUME Inv, Dialogue, onTime, ReadNothing PROVE Dialogue'
<1>1. /\ client \in Gone /\ toServer = <<>> /\ toClient = <<>> /\ heard = {}
      /\ server' = "closed" /\ Replies(<<>>, FALSE)
      /\ UNCHANGED <<onTime, toServer, toClient, client, command, remaining, heard>>
  BY DEF ReadNothing, Goes, net, clientVars, Dialogue, OneAtATime
<1>2. ToSet(<<>>) = {}
  BY DEF ToSet
<1>3. Said' = {}
  BY <1>1, <1>2, SaidReplies, TextsOf
<1>4. outbox' = <<>>
  BY DEF ReadNothing, Goes, Replies
<1> QED
  BY <1>1, <1>3, <1>4
  DEF Dialogue, OneAtATime, WordsTellState, CommandAnswered, CountsAgree, InStep, Pending, Asking,
      Gone, Quiescent

-----------------------------------------------------------------------------
\* What a session says of the state it goes to.
Tells(line, label, texts) ==
  /\ "initialized" \in ToSet(texts) => label = "initEdges"
  /\ "algorithm" \in ToSet(texts) => label = "mstChoice"
  /\ line.kind = "add_vtx" /\ "Enter" \in ToSet(texts) => label = "addVtxTarget"

TellingReply(line, fresh) ==
  \E label \in Waiting \cup {"read", "closed"}, texts \in Seq(Texts) :
    server' = label /\ Replies(texts, fresh) /\ Tells(line, label, texts)

LEMMA SetsOf ==
  /\ ToSet(<<>>) = {} /\ ToSet(<<"Enter">>) = {"Enter"} /\ ToSet(<<"plain">>) = {"plain"}
  /\ ToSet(<<"busy">>) = {"busy"} /\ ToSet(<<"initialized">>) = {"initialized"}
  /\ ToSet(<<"algorithm">>) = {"algorithm"} /\ ToSet(<<"mst">>) = {"mst"}
  /\ ToSet(<<"plain", "Enter">>) = {"plain", "Enter"}
  /\ ToSet(<<"Enter", "plain">>) = {"Enter", "plain"}
  BY DEF ToSet

LEMMA HandleTells ==
  ASSUME NEW line, NEW fresh, Handle(line, fresh)
  PROVE  TellingReply(line, fresh)
<1> DEFINE Labels == Waiting \cup {"read", "closed"}
<1>1. ASSUME NEW label \in Labels, NEW texts \in Seq(Texts), Goes(label, texts, fresh),
             Tells(line, label, texts)
      PROVE  TellingReply(line, fresh)
  BY <1>1 DEF TellingReply, Goes
<1>2. ASSUME NEW label \in Labels, NEW texts \in Seq(Texts), server' = label,
             Replies(texts, fresh), Tells(line, label, texts)
      PROVE  TellingReply(line, fresh)
  BY <1>2 DEF TellingReply
<1>3. /\ "read" \in Labels /\ "closed" \in Labels /\ "initEdges" \in Labels
      /\ "initEdge" \in Labels /\ "addVtxTarget" \in Labels
      /\ "addVtxWeight" \in Labels /\ "mstChoice" \in Labels
  BY DEF Waiting
<1>4. /\ Tells(line, "read", <<>>) /\ Tells(line, "read", <<"plain">>)
      /\ Tells(line, "initEdge", <<"plain">>) /\ Tells(line, "read", <<"busy">>)
      /\ Tells(line, "initEdges", <<"initialized">>) /\ Tells(line, "closed", <<"plain">>)
      /\ Tells(line, "addVtxTarget", <<"plain", "Enter">>) /\ Tells(line, "read", <<"mst">>)
      /\ Tells(line, "mstChoice", <<"algorithm">>)
      /\ line.kind # "add_vtx" =>
           /\ Tells(line, "read", <<"Enter">>) /\ Tells(line, "read", <<"Enter", "plain">>)
           /\ Tells(line, "addVtxWeight", <<"Enter">>)
  BY SetsOf DEF Tells
<1> HIDE DEF Labels
<1>5. CASE Command(line, fresh)
  BY <1>1, <1>3, <1>4, <1>5, TextsOf DEF Command
<1>6. CASE EdgeCount(line, fresh)
  BY <1>1, <1>2, <1>3, <1>4, <1>6, TextsOf DEF EdgeCount
<1>7. CASE EdgeLine(line, fresh)
  BY <1>1, <1>2, <1>3, <1>4, <1>7, TextsOf DEF EdgeLine
<1>8. CASE Target(line, fresh)
  BY <1>1, <1>3, <1>4, <1>8, TextsOf DEF Target
<1>9. CASE Choice(line, fresh)
  BY <1>1, <1>3, <1>4, <1>9, TextsOf DEF Choice
<1>10. CASE Goes("read", <<"plain">>, fresh)
  BY <1>1, <1>3, <1>4, <1>10, TextsOf
<1> QED
  BY <1>5, <1>6, <1>7, <1>8, <1>9, <1>10 DEF Handle

\* A line that comes alone is taken for what it is.
LEMMA JoinedAlone ==
  ASSUME NEW lines, Len(lines) = 1
  PROVE  Joined(lines) = lines[1].of
<1> DEFINE texts == {i \in 1..1 : lines[i].of # Line("empty")}
<1>1. texts = {} \/ texts = {1}
  OBVIOUS
<1>2. texts = {} => lines[1].of = Line("empty")
  OBVIOUS
<1>3. texts = {1} => Min(texts) = 1
  BY DEF Min
<1> HIDE DEF texts
<1> QED
  BY <1>1, <1>2, <1>3 DEF Joined, texts

LEMMA ReadLineInStep == ASSUME Inv, Dialogue, onTime, ReadLine PROVE Dialogue'
<1>1. PICK k \in 1..Len(toServer) :
        /\ Handle(Joined(SubSeq(toServer, 1, k)), toServer[k].fresh)
        /\ toServer' = SubSeq(toServer, k + 1, Len(toServer))
  BY DEF ReadLine
<1>2. toServer # <<>> /\ server \notin {"closed", "queued"}
  BY <1>1, ElementsOf DEF Inv, Queues, Handle
<1>3. Len(toServer) = 1 /\ k = 1 /\ Said = {}
  BY <1>1, <1>2 DEF Dialogue, OneAtATime, Pending
<1> DEFINE line == toServer[1].of
<1>4. Handle(line, toServer[k].fresh) /\ toServer' = <<>>
  <2>1. ASSUME NEW T, NEW q \in Seq(T), Len(q) = 1
        PROVE  /\ Len(SubSeq(q, 1, 1)) = 1 /\ SubSeq(q, 1, 1)[1] = q[1]
               /\ SubSeq(q, 1 + 1, 1) = <<>>
    BY <2>1
  <2>2. /\ Len(SubSeq(toServer, 1, 1)) = 1 /\ SubSeq(toServer, 1, 1)[1] = toServer[1]
        /\ SubSeq(toServer, 1 + 1, 1) = <<>>
    BY <1>3, <2>1 DEF Inv, Queues
  <2>3. Joined(SubSeq(toServer, 1, k)) = line
    BY <1>3, <2>2, JoinedAlone
  <2>4. toServer' = SubSeq(toServer, 1 + 1, 1)
    BY <1>1, <1>3
  <2> QED
    BY <1>1, <2>2, <2>3, <2>4
<1>5. UNCHANGED <<onTime, toClient, client, command, remaining, heard>>
  BY DEF ReadLine, clientVars
<1>6. heard = {} /\ toClient = <<>>
  <2>1. ASSUME toClient # <<>> PROVE FALSE
    <3>1. OfQueue(toClient) # {}
      BY <2>1, OfTail DEF Inv, Queues
    <3> QED
      BY <1>3, <3>1 DEF Said
  <2> QED
    BY <1>3, <2>1 DEF Said
<1>7. client \notin Asking \cup Gone
  BY <1>2 DEF Dialogue, OneAtATime, Quiescent
<1>8. PICK label \in Waiting \cup {"read", "closed"}, texts \in Seq(Texts) :
        server' = label /\ Said' = ToSet(texts) /\ Tells(line, label, texts)
  BY <1>4, <1>5, <1>6, HandleTells, SaidReplies DEF TellingReply
<1>9. OneAtATime'
  BY <1>4, <1>5, <1>7, <1>8 DEF OneAtATime, Pending, Waiting
<1>10. WordsTellState'
  BY <1>8 DEF Tells, WordsTellState
<1>11. CommandAnswered'
  <2>1. client = "request" => line = command
    BY <1>2 DEF Dialogue, CommandAnswered, Pending
  <2> QED
    BY <1>4, <1>5, <1>7, <1>8, <2>1 DEF CommandAnswered, Pending, Tells, Asking
<1>12. CountsAgree'
  <2>1. CASE client = "edgesReply"
    <3>1. server = "initEdges" /\ line.kind = "edges" /\ line.n = remaining
      BY <1>2, <2>1 DEF Dialogue, CountsAgree
    <3>2. EdgeCount(line, toServer[k].fresh)
      BY <1>4, <3>1 DEF Handle
    <3>3. remaining > 0 => server' = "initEdge" /\ left' = remaining
      BY <3>1, <3>2 DEF EdgeCount, Dialogue, CountsAgree
    <3> QED
      BY <1>4, <1>5, <2>1, <3>3 DEF Dialogue, CountsAgree
  <2>2. CASE client = "edgeReply"
    <3>1. server = "initEdge" /\ left = remaining + 1 /\ remaining \in Int
      BY <1>2, <2>2 DEF Dialogue, CountsAgree
    <3>2. EdgeLine(line, toServer[k].fresh)
      BY <1>4, <3>1 DEF Handle
    <3>3. remaining > 0 => server' = "initEdge" /\ left' = remaining
      BY <3>1, <3>2 DEF EdgeLine
    <3> QED
      BY <1>4, <1>5, <2>2, <3>3 DEF Dialogue, CountsAgree
  <2> QED
    BY <1>5, <2>1, <2>2 DEF Dialogue, CountsAgree
<1>13. InStep'
  BY <1>5, <1>7 DEF InStep, Asking
<1> QED
  BY <1>9, <1>10, <1>11, <1>12, <1>13 DEF Dialogue

-----------------------------------------------------------------------------
LEMMA DialogueInit == Init => DialogueInv
  BY OfEmpty
  DEF Init, DialogueInv, Dialogue, OneAtATime, WordsTellState, CommandAnswered, CountsAgree, InStep,
      Said, Pending, Asking, Gone

LEMMA DialogueNext == Inv /\ DialogueInv /\ [Next]_vars => DialogueInv'
<1>1. ASSUME DialogueInv, UNCHANGED vars PROVE DialogueInv'
  BY <1>1
  DEF DialogueInv, Dialogue, OneAtATime, WordsTellState, CommandAnswered, CountsAgree, InStep, Said,
      OfQueue, Pending, Quiescent, vars, net, serverVars, clientVars
<1>2. ASSUME Next PROVE UNCHANGED onTime
  BY <1>2
  DEF Next, ClientStep, ServerStep, Prompt, Collect, RequestAnswered, OtherAnswered, NextMetric,
      AnswerRetry, AnswerEdges, AnswerEdge, AnswerLine, AnswerMetrics, StartSession, WriteReply,
      ReadLine, ReadNothing, Stay
<1> QED
  BY <1>1, <1>2, ClientInStep, StartInStep, WriteInStep, ReadLineInStep, ReadNothingInStep
  DEF Next, ServerStep, DialogueInv

\* On a network in time the client asks its user for just what the session
\* waits for: the number of edges, each of so many edges, the algorithm, the
\* vertex to connect a new one to.
THEOREM InStepCorrect == SafeSpec => []InStep
<1>1. DialogueInv => InStep
  BY DEF DialogueInv, Dialogue, InStep
<1> QED
  BY <1>1, InitInv, NextKeepsInv, DialogueInit, DialogueNext, PTL DEF SafeSpec

-----------------------------------------------------------------------------
(***************************************************************************)
(* Type correctness.  That the numbers stay in range rests on the client's *)
(* asking for an edge only while some remain, and on the session's leaving *)
(* its loop at the last.                                                   *)
(***************************************************************************)
Bound == Max({MaxEdges, 3})

ClientTyped ==
  /\ onTime \in BOOLEAN
  /\ client \in Collecting \cup Asking \cup Gone
  /\ remaining \in 0..Bound
  /\ client = "askEdge" => remaining > 0
  /\ heard \subseteq Texts \ {"plain"}
  /\ stale \in BOOLEAN
  /\ cin \in {"good", "failed"}

ServerTyped ==
  /\ server \in Waiting \cup {"queued", "read", "closed"}
  /\ left \in 0..MaxEdges
  /\ left > 0 <=> server = "initEdge"

InFlight == Len(toServer) <= MaxInFlight

LEMMA BoundIs == Bound \in Nat /\ MaxEdges \in Nat /\ MaxEdges <= Bound /\ 3 <= Bound
<1>1. MaxEdges \in Nat
  BY ProtocolAssumption
<1>2. PICK m \in {MaxEdges, 3} : \A y \in {MaxEdges, 3} : m >= y
  BY <1>1
<1>3. Bound \in {MaxEdges, 3} /\ \A y \in {MaxEdges, 3} : Bound >= y
  BY <1>2 DEF Bound, Max
<1> QED
  BY <1>1, <1>3

\* After the client has sent a line, or has gone on to its prompt.
LEMMA SentTyped ==
  ASSUME ClientTyped, NEW line, NEW then \in Collecting, SendLine(line, then), UNCHANGED onTime,
         remaining' \in 0..Bound, cin' \in {"good", "failed"}
  PROVE  ClientTyped'
<1>1. client' \in Collecting \cup Gone /\ client' # "askEdge"
  BY DEF SendLine, Collecting, Gone
<1> QED
  BY <1>1 DEF ClientTyped, SendLine, Forget, Collecting

LEMMA TurnedTyped ==
  ASSUME ClientTyped, UNCHANGED <<onTime, remaining>>, cin' \in {"good", "failed"},
         \/ Return \/ React
         \/ \E question \in Collecting \cup Asking :
              Asks(question) /\ (question = "askEdge" => remaining > 0)
  PROVE  ClientTyped'
<1>1. heard' = {} /\ stale' = FALSE
  BY DEF Return, React, Asks, Forget
<1>2. /\ client' \in Collecting \cup Asking \cup Gone
      /\ client' = "askEdge" => remaining > 0
  BY DEF Return, React, Asks, Collecting, Asking, Gone
<1> QED
  BY <1>1, <1>2 DEF ClientTyped

LEMMA ClientStepTyped ==
  ASSUME Inv, ClientTyped, ClientStep
  PROVE  ClientTyped'
<1> USE DEF Typed
<1>1. cin \in {"good", "failed"} /\ remaining \in 0..Bound /\ Bound \in Nat /\ 3 <= Bound
      /\ MaxEdges \in Nat /\ MaxEdges <= Bound
  BY BoundIs DEF ClientTyped
<1>2. {"request", "extraReply", "edgesReply", "edgeReply", "metricReply", "finalReply"} \subseteq Collecting
      /\ {"askEdge", "askRetry"} \subseteq Asking
  BY DEF Collecting, Asking
<1>3. CASE Prompt
  BY <1>1, <1>2, <1>3, SentTyped DEF Prompt
<1>4. CASE Collect
  <2>1. Head(toClient).of \in Texts
    <3>1. toClient \in Seq([of : Texts, fresh : BOOLEAN]) /\ toClient # <<>>
      BY <1>4 DEF Collect, Inv, Queues
    <3>2. Head(toClient) \in [of : Texts, fresh : BOOLEAN]
      BY <3>1, HeadIn
    <3> QED
      BY <3>2
  <2>2. client' = client /\ UNCHANGED <<onTime, remaining, cin>>
        /\ heard' = heard \cup ({Head(toClient).of} \ {"plain"})
        /\ stale' \in BOOLEAN
    BY <1>4 DEF Collect
  <2> QED
    BY <2>1, <2>2 DEF ClientTyped
<1>5. CASE RequestAnswered
  <2>1. CASE client' = "askRetry" /\ UNCHANGED <<heard, stale>>
    <3>1. UNCHANGED <<onTime, remaining, cin>>
      BY <1>5 DEF RequestAnswered, Stay
    <3>2. client' # "askEdge"
      BY <2>1
    <3> QED
      BY <1>2, <2>1, <3>1, <3>2 DEF ClientTyped
  <2>2. CASE React
    BY <1>1, <1>5, <2>2, TurnedTyped DEF RequestAnswered, Stay
  <2> QED
    BY <1>5, <2>1, <2>2 DEF RequestAnswered
<1>6. CASE OtherAnswered
  <2>1. CASE Return
    BY <1>1, <1>6, <2>1, TurnedTyped DEF OtherAnswered, Stay
  <2>2. CASE Asks(IF remaining > 0 THEN "askEdge" ELSE "finalReply")
    <3>1. PICK question \in Collecting \cup Asking :
            Asks(question) /\ (question = "askEdge" => remaining > 0)
      BY <1>2, <2>2
    <3> QED
      BY <1>1, <1>6, <3>1, TurnedTyped DEF OtherAnswered, Stay
  <2> QED
    BY <1>6, <2>1, <2>2 DEF OtherAnswered
<1>7. CASE NextMetric
  <2>1. remaining' \in 0..Bound
    BY <1>1, <1>7 DEF NextMetric
  <2> QED
    BY <1>1, <1>2, <1>7, <2>1, SentTyped DEF NextMetric
<1>8. CASE AnswerRetry
  BY <1>1, <1>2, <1>8, SentTyped, TurnedTyped DEF AnswerRetry, Stay
<1>9. CASE AnswerEdges
  <2>1. cin' \in {"good", "failed"} /\ UNCHANGED onTime
    BY <1>1, <1>9 DEF AnswerEdges, Stay
  <2>2. CASE Return /\ UNCHANGED remaining
    BY <2>1, <2>2, TurnedTyped
  <2>3. ASSUME NEW n \in Counts, remaining' = n,
               SendLine([kind |-> "edges", n |-> n], "edgesReply")
        PROVE  ClientTyped'
    <3>1. remaining' \in 0..Bound
      BY <1>1, <2>3 DEF Counts
    <3> QED
      BY <1>2, <2>1, <2>3, <3>1, SentTyped
  <2> QED
    BY <1>9, <2>2, <2>3 DEF AnswerEdges
<1>10. CASE AnswerEdge
  <2>1. remaining' \in 0..Bound
    BY <1>1, <1>10 DEF AnswerEdge, ClientTyped
  <2> QED
    BY <1>1, <1>2, <1>10, <2>1, SentTyped DEF AnswerEdge
<1>11. CASE AnswerLine
  BY <1>1, <1>2, <1>11, SentTyped DEF AnswerLine
<1>12. CASE AnswerMetrics
  <2>1. cin' \in {"good", "failed"} /\ UNCHANGED onTime
    BY <1>1, <1>12 DEF AnswerMetrics, Stay
  <2>2. CASE Return /\ UNCHANGED remaining
    BY <2>1, <2>2, TurnedTyped
  <2>3. CASE remaining' = 3 /\ SendLine(Line("query"), "metricReply")
    <3>1. remaining' \in 0..Bound
      BY <1>1, <2>3
    <3> QED
      BY <1>2, <2>1, <2>3, <3>1, SentTyped
  <2> QED
    BY <1>12, <2>2, <2>3 DEF AnswerMetrics
<1> QED
  BY <1>3, <1>4, <1>5, <1>6, <1>7, <1>8, <1>9, <1>10, <1>11, <1>12 DEF ClientStep

\* The client leaves the session where it is, and sends no more than fits.
LEMMA ClientLeavesServer ==
  ASSUME Inv, ClientStep
  PROVE  UNCHANGED <<server, left>> /\ (InFlight => InFlight')
<1>1. UNCHANGED server /\ UNCHANGED left
  BY DEF ClientStep, Prompt, Collect, RequestAnswered, OtherAnswered, NextMetric, AnswerRetry,
     AnswerEdges, AnswerEdge, AnswerLine, AnswerMetrics, Stay, serverVars
<1>2. ASSUME NEW line, NEW then, SendLine(line, then)
      PROVE  InFlight => InFlight'
  <2>1. CASE UNCHANGED toServer
    BY <2>1 DEF InFlight
  <2>2. CASE toServer' = Append(Stale(toServer), Fresh(line))
    <3>1. Len(Stale(toServer)) = Len(toServer) /\ Len(toServer) \in Nat
      BY DEF Stale, Inv, Queues
    <3>2. Len(toServer') = Len(toServer) + 1
      <4> DEFINE q == Stale(toServer)
      <4>1. q \in Seq([of : Lines, fresh : BOOLEAN])
        BY StaleQueue DEF Inv, Queues
      <4> HIDE DEF q
      <4>2. Len(Append(q, Fresh(line))) = Len(q) + 1
        BY <4>1
      <4> QED
        BY <2>2, <3>1, <4>2 DEF q
    <3> QED
      BY <1>2, <3>1, <3>2, ProtocolAssumption DEF SendLine, InFlight
  <2> QED
    BY <1>2, <2>1, <2>2 DEF SendLine
<1>3. UNCHANGED toServer => (InFlight => InFlight')
  BY DEF InFlight
<1>4. \/ UNCHANGED toServer
      \/ \E line, then : SendLine(line, then)
  BY DEF ClientStep, Prompt, Collect, RequestAnswered, OtherAnswered, NextMetric, AnswerRetry,
     AnswerEdges, AnswerEdge, AnswerLine, AnswerMetrics, Stay, net
<1>5. InFlight => InFlight'
  BY <1>2, <1>3, <1>4
<1> QED
  BY <1>1, <1>5

LEMMA JoinedLine ==
  ASSUME NEW lines \in Seq([of : Lines, fresh : BOOLEAN])
  PROVE  Joined(lines) \in Lines
<1> DEFINE texts == {i \in 1..Len(lines) : lines[i].of # Line("empty")}
           first == lines[Min(texts)].of
<1>1. Line("empty") \in Lines /\ Line("word") \in Lines
  BY DEF Lines
<1>2. \A i \in 1..Len(lines) : lines[i].of \in Lines
  <2>1. \A i \in 1..Len(lines) : lines[i] \in [of : Lines, fresh : BOOLEAN]
    BY ElementsOf
  <2> QED
    BY <2>1
<1>3. texts \in SUBSET Nat /\ texts \subseteq 1..Len(lines)
  OBVIOUS
<1> HIDE DEF texts
<1>4. texts # {} => first \in Lines
  BY <1>2, <1>3, HasLeast
<1>5. Joined(lines) \in {Line("empty"), Line("word")} \/ (texts # {} /\ Joined(lines) = first)
  BY DEF Joined, texts
<1> QED
  BY <1>1, <1>4, <1>5

LEMMA HandleTyped ==
  ASSUME ServerTyped, NEW line \in Lines, NEW fresh, Handle(line, fresh)
  PROVE  ServerTyped'
<1>1. left \in 0..MaxEdges /\ MaxEdges \in Nat /\ (left > 0 <=> server = "initEdge")
  BY ProtocolAssumption DEF ServerTyped
<1>2. ASSUME NEW label \in (Waiting \ {"initEdge"}) \cup {"read", "closed"}, NEW texts,
             Goes(label, texts, fresh)
      PROVE  ServerTyped'
  BY <1>1, <1>2 DEF Goes, ServerTyped
<1>3. ASSUME NEW n \in 1..MaxEdges, server' = "initEdge", left' = n
      PROVE  ServerTyped'
  BY <1>1, <1>3 DEF ServerTyped, Waiting
<1> DEFINE Labels == (Waiting \ {"initEdge"}) \cup {"read", "closed"}
<1>4. /\ "read" \in Labels /\ "closed" \in Labels /\ "initEdges" \in Labels
      /\ "addVtxTarget" \in Labels /\ "addVtxWeight" \in Labels /\ "mstChoice" \in Labels
  BY DEF Waiting
<1> HIDE DEF Labels
<1>5. \A label \in Labels : \A texts : Goes(label, texts, fresh) => ServerTyped'
  BY <1>2 DEF Labels
<1>6. CASE Command(line, fresh)
  BY <1>4, <1>5, <1>6 DEF Command
<1>7. CASE EdgeCount(line, fresh)
  <2>1. line.kind = "edges" => line.n \in 0..MaxEdges
    BY DEF Lines, Line, Counts
  <2>2. CASE line.kind = "edges" /\ line.n > 0 /\ server' = "initEdge" /\ left' = line.n
    <3>1. line.n \in 1..MaxEdges
      BY <1>1, <2>1, <2>2
    <3> QED
      BY <1>3, <2>2, <3>1
  <2> QED
    BY <1>4, <1>5, <1>7, <2>2 DEF EdgeCount
<1>8. CASE server = "initEdge" /\ EdgeLine(line, fresh)
  <2>1. CASE left = 1
    BY <1>4, <1>5, <1>8, <2>1 DEF EdgeLine
  <2>2. CASE left # 1
    <3>1. left - 1 \in 1..MaxEdges
      BY <1>1, <1>8, <2>2
    <3> QED
      BY <1>3, <1>8, <2>2, <3>1 DEF EdgeLine
  <2> QED
    BY <2>1, <2>2
<1>9. CASE Target(line, fresh)
  BY <1>4, <1>5, <1>9 DEF Target
<1>10. CASE Choice(line, fresh)
  BY <1>4, <1>5, <1>10 DEF Choice
<1>11. CASE Goes("read", <<"plain">>, fresh)
  BY <1>4, <1>5, <1>11
<1> QED
  BY <1>6, <1>7, <1>8, <1>9, <1>10, <1>11 DEF Handle

LEMMA ServerStepTyped ==
  ASSUME Inv, ServerTyped, InFlight, ServerStep
  PROVE  ServerTyped' /\ InFlight' /\ UNCHANGED <<onTime, clientVars>>
<1>1. UNCHANGED <<onTime, clientVars>>
  BY DEF ServerStep, StartSession, WriteReply, ReadLine, ReadNothing
<1>2. CASE StartSession
  BY <1>2, ProtocolAssumption DEF StartSession, Goes, ServerTyped, InFlight, net, Waiting
<1>3. CASE WriteReply
  BY <1>3 DEF WriteReply, ServerTyped, InFlight
<1>4. CASE ReadNothing
  BY <1>4, ProtocolAssumption DEF ReadNothing, Goes, ServerTyped, InFlight, net, Waiting
<1>5. CASE ReadLine
  <2> DEFINE T == [of : Lines, fresh : BOOLEAN]
  <2>1. PICK k \in 1..Len(toServer) :
          /\ Handle(Joined(SubSeq(toServer, 1, k)), toServer[k].fresh)
          /\ toServer' = SubSeq(toServer, k + 1, Len(toServer))
    BY <1>5 DEF ReadLine
  <2>2. toServer \in Seq(T)
    BY DEF Inv, Queues
  <2> HIDE DEF T
  <2>3. SubSeq(toServer, 1, k) \in Seq(T) /\ Len(SubSeq(toServer, k + 1, Len(toServer))) <= Len(toServer)
        /\ Len(toServer) \in Nat
    BY <2>2
  <2>4. Joined(SubSeq(toServer, 1, k)) \in Lines
    BY <2>3, JoinedLine DEF T
  <2>5. InFlight'
    <3>1. Len(toServer') \in Nat
      BY <2>1, <2>2
    <3> QED
      BY <2>1, <2>3, <3>1, ProtocolAssumption DEF InFlight
  <2> QED
    BY <1>1, <2>1, <2>4, <2>5, HandleTyped
<1> QED
  BY <1>1, <1>2, <1>3, <1>4, <1>5 DEF ServerStep

TypeInv == Inv /\ ClientTyped /\ ServerTyped /\ InFlight

LEMMA TypeInvInit == Init => TypeInv
<1> SUFFICES ASSUME Init PROVE TypeInv
  OBVIOUS
<1>1. ClientTyped
  <2>1. 0 \in 0..Bound
    BY BoundIs
  <2> QED
    BY <2>1 DEF Init, ClientTyped, Collecting
<1>2. ServerTyped /\ InFlight
  BY ProtocolAssumption DEF Init, ServerTyped, InFlight
<1> QED
  BY <1>1, <1>2, InitInv DEF TypeInv

LEMMA TypeInvStep == TypeInv /\ [Next]_vars => TypeInv'
<1> SUFFICES ASSUME TypeInv, [Next]_vars PROVE TypeInv'
  OBVIOUS
<1>1. Inv'
  BY NextKeepsInv DEF TypeInv
<1>2. CASE ClientStep
  BY <1>1, <1>2, ClientStepTyped, ClientLeavesServer DEF TypeInv, ServerTyped
<1>3. CASE ServerStep
  BY <1>1, <1>3, ServerStepTyped DEF TypeInv, ClientTyped, clientVars
<1>4. CASE UNCHANGED vars
  BY <1>1, <1>4 DEF TypeInv, ClientTyped, ServerTyped, InFlight, vars, net, serverVars, clientVars
<1> QED
  BY <1>2, <1>3, <1>4 DEF Next

\* However many edges the user announces and however many lines are in flight,
\* every variable of the dialogue keeps its type: no more lines than allowed
\* are in flight, and both counts of edges stay between 0 and what was
\* announced, the session's at 0 exactly outside its loop.
THEOREM ProtocolTypeCorrect == SafeSpec => []TypeOK
<1>1. TypeInv => TypeOK
  BY DEF TypeInv, Inv, Queues, ClientTyped, ServerTyped, InFlight, TypeOK, Bound
<1> QED
  BY <1>1, TypeInvInit, TypeInvStep, PTL DEF SafeSpec
=============================================================================
