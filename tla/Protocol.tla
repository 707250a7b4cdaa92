------------------------------ MODULE Protocol ------------------------------
(***************************************************************************)
(* The dialogue of one client (src/src/client/Client.cpp and               *)
(* src/client_main.cpp) with its session on the server.  There is no       *)
(* framing: the client takes for a reply what arrives until 100 ms pass in *)
(* silence, and reacts to words in it; the server takes for a line what    *)
(* one read() returns.                                                     *)
(*                                                                         *)
(* onTime says which network this is: one where the client's 100 ms are    *)
(* always enough for the server to read a line and answer it, or one where *)
(* a silence may fall anywhere.  A line, or a reply, is always sent in one *)
(* segment; the server's graph is that of Sessions, here only held or not. *)
(***************************************************************************)
EXTENDS Integers, FiniteSetsExt, SequencesExt

CONSTANTS
  MaxEdges,      \* bound on the edges the user announces
  MaxInFlight    \* bound on the lines the server has not read

ASSUME ProtocolAssumption == MaxEdges \in Nat \ {0} /\ MaxInFlight \in Nat \ {0}

VARIABLES
  onTime,
  toServer,   \* lines on their way
  toClient,   \* replies on their way
  server,     \* where the session waits
  left,       \* init: the edges it still expects
  outbox,     \* the replies it is about to write
  client,     \* where the client is
  command,    \* the last line read at the prompt "> "
  remaining,  \* numEdges - i, or the metrics still to ask for
  heard,      \* what the client looks for, and has found, in the response
  stale,      \* is part of the response to an earlier line?
  cin         \* std::cin: "good", or "failed": nothing is read any more

net == <<toServer, toClient>>
serverVars == <<server, left, outbox>>
clientVars == <<client, command, remaining, heard, stale, cin>>
vars == <<onTime, net, serverVars, clientVars>>

-----------------------------------------------------------------------------
(***************************************************************************)
(* Lines, by how the server takes them: "edit" stands for add_edge,        *)
(* remove_edge and remove_vtx, "query" for what is answered at once        *)
(* (metric, change_weight, init 1), "mst" for print_graph, too, which like *)
(* mst has no arguments and may be answered at once, "numbers" for an      *)
(* edge, an index or a weight, "word" for what is answered by the menu:    *)
(* `menu`, and any unknown command, "misspelt" for one that has the name   *)
(* of an edit in it.  Replies written in one go that the client tells not  *)
(* apart are one.                                                          *)
(***************************************************************************)
\* How many edges a line announces; 0 stands for negative numbers, too.
Counts == 0..MaxEdges

Line(kind) == [kind |-> kind, n |-> 0]

Lines ==
  {Line(k) : k \in {"init", "add_vtx", "edit", "mst", "query", "exit", "empty",
                    "numbers", "algorithm", "word", "misspelt"}}
  \cup {[kind |-> "edges", n |-> n] : n \in Counts}

\* What the client looks for in a reply.
Texts == {"busy", "initialized", "algorithm", "mst", "Enter", "plain"}

\* The line, or the reply, in transit: fresh if the client has sent no line
\* since the one it is, or answers.
Fresh(x) == [of |-> x, fresh |-> TRUE]
Stale(xs) == [i \in 1..Len(xs) |-> [xs[i] EXCEPT !.fresh = FALSE]]

Waiting == {"initEdges", "initEdge", "addVtxTarget", "addVtxWeight", "mstChoice"}

Collecting ==
  {"menu",         \* in receiveResponse(), from connectToServer()
   "request",      \* the same, in sendRequest()
   "edgesReply", "edgeReply", "finalReply",
   "extraReply",   \* the reply to the algorithm or to an additional line
   "metricReply"}  \* in sendMetricsRequests()

Asking ==
  {"prompt", "askRetry", "askEdges", "askEdge", "askAlgorithm", "askMetrics", "askInput"}

Gone == {"ended", "killed"}

Init ==
  /\ onTime \in BOOLEAN
  /\ toServer = <<>> /\ toClient = <<>>
  /\ server = "queued" /\ left = 0 /\ outbox = <<>>
  /\ client = "menu" /\ command = Line("empty") /\ remaining = 0
  /\ heard = {} /\ stale = FALSE /\ cin = "good"

-----------------------------------------------------------------------------
(***************************************************************************)
(* The client.                                                             *)
(***************************************************************************)
Forget == heard' = {} /\ stale' = FALSE

\* Once the server has closed the connection a line is lost, or, when its
\* reset has arrived, the write kills the client.
SendLine(line, then) ==
  /\ Len(toServer) < MaxInFlight
  /\ \/ /\ toServer' = Append(Stale(toServer), Fresh(line))
        /\ client' = then
     \/ /\ server = "closed"
        /\ client' = "killed"
        /\ UNCHANGED toServer
  /\ toClient' = Stale(toClient)
  /\ outbox' = Stale(outbox)
  /\ Forget

\* main() leaves its loop after the command `exit`, whatever the reply was.
Return ==
  /\ client' = IF command = Line("exit") THEN "ended" ELSE "prompt"
  /\ Forget

\* getline into a new string, which stays empty when the input has failed.
\* The input may end with this line, with a line break or without.
Typed(line) ==
  /\ cin = "good" \/ line = Line("empty")
  /\ cin' \in {cin, "failed"}

\* getline leaves the string as it is if nothing was left to read before.
Prompt ==
  /\ client = "prompt"
  /\ \E line \in Lines :
       /\ IF cin = "good" THEN Typed(line) ELSE line = command /\ UNCHANGED cin
       /\ command' = line
       /\ SendLine(line, "request")
  /\ UNCHANGED <<onTime, server, left, remaining>>

Collect ==
  /\ client \in Collecting
  /\ toClient # <<>>
  /\ heard' = heard \cup ({Head(toClient).of} \ {"plain"})
  /\ stale' = (stale \/ ~Head(toClient).fresh)
  /\ toClient' = Tail(toClient)
  /\ UNCHANGED <<onTime, toServer, serverVars, client, command, remaining, cin>>

\* The server has read everything and answered it, or closed the connection.
Quiescent ==
  /\ server # "queued" /\ outbox = <<>>
  /\ toServer = <<>> \/ server = "closed"

Silence(context) ==
  /\ client = context
  /\ toClient = <<>>
  /\ onTime => Quiescent

Asks(question) == client' = question /\ Forget

\* sendRequest() after the retry: it looks for one text after the other.
React ==
  IF "initialized" \in heard THEN Asks("askEdges")
  ELSE IF "algorithm" \in heard THEN Asks("askAlgorithm")
  ELSE IF "mst" \in heard THEN Asks("askMetrics")
  ELSE IF command.kind \in {"add_vtx", "edit", "misspelt"} /\ "Enter" \in heard
       THEN Asks("askInput")
       ELSE Return

Stay == UNCHANGED <<onTime, net, serverVars, command>>

RequestAnswered ==
  /\ Silence("request")
  /\ \/ "busy" \in heard /\ client' = "askRetry" /\ UNCHANGED <<heard, stale>>
     \/ "busy" \notin heard /\ React
  /\ UNCHANGED <<remaining, cin>>
  /\ Stay

OtherAnswered ==
  /\ \/ /\ \/ Silence("menu") \/ Silence("finalReply") \/ Silence("extraReply")
           \/ Silence("metricReply") /\ remaining = 0
        /\ Return
     \/ /\ Silence("edgesReply") \/ Silence("edgeReply")
        /\ Asks(IF remaining > 0 THEN "askEdge" ELSE "finalReply")
  /\ UNCHANGED <<remaining, cin>>
  /\ Stay

\* Mutant of NextMetric: sends the next request before the last is answered.
NextMetricAtOnce ==
  /\ client = "metricReply"
  /\ remaining > 0
  /\ remaining' = remaining - 1
  /\ SendLine(Line("query"), "metricReply")
  /\ UNCHANGED <<onTime, server, left, command, cin>>

NextMetric ==
  /\ Silence("metricReply")
  /\ remaining > 0
  /\ remaining' = remaining - 1
  /\ SendLine(Line("query"), "metricReply")
  /\ UNCHANGED <<onTime, server, left, command, cin>>

AnswerRetry ==
  /\ client = "askRetry"
  /\ \/ /\ Typed(Line("word"))                              \* "y"
        /\ SendLine(command, "request")
        /\ UNCHANGED <<onTime, server, left, command, remaining>>
     \/ /\ Typed(Line("empty"))
        /\ React
        /\ UNCHANGED remaining
        /\ Stay

\* cin >> numEdges stores 0 for what is no number, and nothing, so that
\* numEdges is uninitialised, if the input had failed or ended before.  The
\* client goes back to its prompt on 0, but sends a negative number.
AnswerEdges ==
  /\ client = "askEdges"
  /\ cin' \in {cin, "failed"}
  /\ \/ /\ Return
        /\ UNCHANGED remaining
        /\ Stay
     \/ /\ \E n \in Counts :
             /\ remaining' = n
             /\ SendLine([kind |-> "edges", n |-> n], "edgesReply")
        /\ UNCHANGED <<onTime, server, left, command>>

AnswerEdge ==
  /\ client = "askEdge"
  /\ \E line \in Lines : Typed(line) /\ SendLine(line, "edgeReply")
  /\ remaining' = remaining - 1
  /\ UNCHANGED <<onTime, server, left, command>>

AnswerLine ==
  /\ client \in {"askAlgorithm", "askInput"}
  /\ \E line \in Lines : Typed(line) /\ SendLine(line, "extraReply")
  /\ UNCHANGED <<onTime, server, left, command, remaining>>

\* Four metrics; the first request is sent at once.
AnswerMetrics ==
  /\ client = "askMetrics"
  /\ \/ /\ Typed(Line("word"))
        /\ remaining' = 3
        /\ SendLine(Line("query"), "metricReply")
        /\ UNCHANGED <<onTime, server, left, command>>
     \/ /\ Typed(Line("empty"))
        /\ Return
        /\ UNCHANGED remaining
        /\ Stay

ClientStep ==
  \/ Prompt \/ Collect \/ RequestAnswered \/ OtherAnswered \/ NextMetric
  \/ AnswerRetry \/ AnswerEdges \/ AnswerEdge \/ AnswerLine \/ AnswerMetrics

-----------------------------------------------------------------------------
(***************************************************************************)
(* The session.                                                            *)
(***************************************************************************)
Replies(texts, fresh) ==
  outbox' = [i \in 1..Len(texts) |-> [of |-> texts[i], fresh |-> fresh]]

Goes(label, texts, fresh) ==
  /\ server' = label
  /\ Replies(texts, fresh)
  /\ left' = IF label = "initEdge" THEN left ELSE 0

StartSession ==
  /\ server = "queued"
  /\ Goes("read", <<"Enter">>, TRUE)
  /\ UNCHANGED <<onTime, net, clientVars>>

WriteReply ==
  /\ outbox # <<>>
  /\ toClient' = Append(toClient, Head(outbox))
  /\ outbox' = Tail(outbox)
  /\ UNCHANGED <<onTime, toServer, server, left, clientVars>>

(***************************************************************************)
(* Lines that one read() returns together.  Where the handler parses with  *)
(* a stream or with stoi the first one that is not empty counts and the    *)
(* rest is lost.  Otherwise the line breaks are erased, so a name is glued *)
(* to the next line; arguments keep it apart.                              *)
(***************************************************************************)
Joined(lines) ==
  LET texts == {i \in 1..Len(lines) : lines[i].of # Line("empty")}
      first == lines[Min(texts)].of
      glued == \/ server = "mstChoice"
               \/ server = "read" /\ first.kind \in {"add_vtx", "mst", "exit"}
  IN  IF texts = {} THEN Line("empty")
      ELSE IF texts # {Min(texts)} /\ glued THEN Line("word")
      ELSE first

\* A request that needs the graph while another session has it.
Command(line, fresh) ==
  \/ /\ line.kind \in {"init", "add_vtx", "edit", "mst", "query"}
     /\ Goes("read", <<"busy">>, fresh)
  \/ line.kind = "init" /\ Goes("initEdges", <<"initialized">>, fresh)
  \/ line.kind = "add_vtx" /\ Goes("addVtxTarget", <<"plain", "Enter">>, fresh)
  \/ line.kind = "edit" /\ Goes("read", <<"Enter", "plain">>, fresh)
  \/ line.kind \in {"query", "mst"} /\ Goes("read", <<"plain">>, fresh)
  \/ line.kind = "mst" /\ Goes("mstChoice", <<"algorithm">>, fresh)
  \/ line.kind = "empty" /\ Goes("read", <<>>, fresh)
  \/ line.kind = "exit" /\ Goes("closed", <<"plain">>, fresh)
  \/ /\ line.kind \in {"word", "misspelt", "numbers", "algorithm", "edges"}
     /\ Goes("read", <<"Enter">>, fresh)

\* Mutant of EdgeLine: a line that holds no edge does not count.
EdgeLineOnly(line, fresh) ==
  IF line.kind # "numbers"
  THEN Goes("initEdge", <<"plain">>, fresh)
  ELSE IF left = 1 THEN Goes("read", <<"plain">>, fresh)
       ELSE left' = left - 1 /\ server' = "initEdge" /\ Replies(<<"plain">>, fresh)

EdgeLine(line, fresh) ==
  IF left = 1 THEN Goes("read", <<"plain">>, fresh)
  ELSE left' = left - 1 /\ server' = "initEdge" /\ Replies(<<"plain">>, fresh)

\* Mutant of EdgeCount: waits for an edge even if there is none.
EdgeCountAny(line, fresh) ==
  \/ line.kind # "edges" /\ Goes("read", <<"plain">>, fresh)
  \/ /\ line.kind = "edges"
     /\ server' = "initEdge" /\ left' = line.n /\ Replies(<<"plain">>, fresh)

EdgeCount(line, fresh) ==
  \/ line.kind # "edges" /\ Goes("read", <<"plain">>, fresh)
  \/ /\ line.kind = "edges" /\ line.n = 0
     /\ Goes("read", <<"plain">>, fresh)
  \/ /\ line.kind = "edges" /\ line.n > 0
     /\ server' = "initEdge" /\ left' = line.n /\ Replies(<<"plain">>, fresh)

\* stoi takes the first number of a line; it may be no vertex.
Target(line, fresh) ==
  \/ line.kind = "numbers" /\ Goes("addVtxWeight", <<"Enter">>, fresh)
  \/ Goes("read", <<"plain">>, fresh)

Choice(line, fresh) ==
  \/ line.kind = "algorithm" /\ Goes("read", <<"mst">>, fresh)
  \/ Goes("read", <<"plain">>, fresh)

Handle(line, fresh) ==
  \/ server = "read" /\ Command(line, fresh)
  \/ server = "initEdges" /\ EdgeCount(line, fresh)
  \/ server = "initEdge" /\ EdgeLine(line, fresh)
  \/ server = "addVtxTarget" /\ Target(line, fresh)
  \/ server = "addVtxWeight" /\ Goes("read", <<"plain">>, fresh)
  \/ server = "mstChoice" /\ Choice(line, fresh)

ReadLine ==
  /\ outbox = <<>>
  /\ \E k \in 1..Len(toServer) :
       /\ Handle(Joined(SubSeq(toServer, 1, k)), toServer[k].fresh)
       /\ toServer' = SubSeq(toServer, k + 1, Len(toServer))
  /\ UNCHANGED <<onTime, toClient, clientVars>>

\* Mutant of ReadNothing: a failed read in a handler is tried again.
ReadNothingAgain ==
  /\ server = "read"
  /\ outbox = <<>> /\ toServer = <<>>
  /\ client \in Gone
  /\ Goes("closed", <<>>, FALSE)
  /\ UNCHANGED <<onTime, net, clientVars>>

\* read() returns 0 once the client has closed its socket.
ReadNothing ==
  /\ server \in Waiting \cup {"read"}
  /\ outbox = <<>> /\ toServer = <<>>
  /\ client \in Gone
  /\ Goes("closed", <<>>, FALSE)
  /\ UNCHANGED <<onTime, net, clientVars>>

ServerStep == StartSession \/ WriteReply \/ ReadLine \/ ReadNothing

Next == ClientStep \/ ServerStep

SafeSpec == Init /\ [][Next]_vars

\* Both programs go on, and the user answers every question, if only by the
\* end of the input.
Spec == SafeSpec /\ WF_vars(ClientStep) /\ WF_vars(ServerStep)

-----------------------------------------------------------------------------
TypeOK ==
  /\ onTime \in BOOLEAN
  /\ toServer \in Seq([of : Lines, fresh : BOOLEAN]) /\ Len(toServer) <= MaxInFlight
  /\ toClient \in Seq([of : Texts, fresh : BOOLEAN])
  /\ server \in Waiting \cup {"queued", "read", "closed"}
  /\ left \in 0..MaxEdges
  /\ left > 0 <=> server = "initEdge"
  /\ outbox \in Seq([of : Texts, fresh : BOOLEAN])
  /\ client \in Collecting \cup Asking \cup Gone
  /\ command \in Lines
  /\ remaining \in 0..Max({MaxEdges, 3})
  /\ heard \subseteq Texts \ {"plain"}
  /\ stale \in BOOLEAN
  /\ cin \in {"good", "failed"}

\* As long as 100 ms are enough, the client reacts only to replies to the line
\* it sent last: it never sends one while another is unanswered.
ReplyMatches == onTime => ~stale

\* As long as 100 ms are enough, the client asks its user only what the server
\* waits for an answer to: how many edges, each of them to the last, and which
\* algorithm, or the vertex to connect a new one to.  Left out is the line the
\* client asks for after any other edit command, when the server, at its
\* command loop, waits for no answer and takes that line for a command.
InStep ==
  onTime =>
    /\ client = "askEdges" => server = "initEdges"
    /\ client = "askEdge" => server = "initEdge" /\ left = remaining
    /\ client = "askAlgorithm" => server = "mstChoice"
    /\ client = "askInput" /\ command.kind = "add_vtx" => server = "addVtxTarget"

\* However late the replies, whatever the user types, and when client and
\* server have lost step, too, the session does not keep the graph for ever.
GraphGivenBack == server \in Waiting ~> server \notin Waiting

(***************************************************************************)
(* A promise of the documentation that the code does not keep.             *)
(***************************************************************************)
\* "This approach ensures that partial or delayed responses are handled
\* gracefully": no part of a response belongs to an earlier request.
DelaysHandled == ~stale
=============================================================================
