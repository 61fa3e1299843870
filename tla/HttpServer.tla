----------------------------- MODULE HttpServer ------------------------------
(***************************************************************************)
(* HttpServer on one connection: requests arrive in segments cut anywhere, *)
(* collect in the connection's inputBuffer_ (module Buffer) and are parsed *)
(* by its HttpContext.                                                     *)
(*                                                                         *)
(* What Buffer calls a byte is here a piece of a line: the text of the     *)
(* line, or its CRLF. A segment may end between the two.                   *)
(*                                                                         *)
(* onMessage is taken in steps, one per turn of parseRequest's loop; the   *)
(* connection's thread does nothing else in between.                       *)
(*                                                                         *)
(*   get11, get10   a request for "/" with that version                    *)
(*   miss11         a request for a path the user's callback does not know *)
(*   badVersion     a method that is known, and then not a request line    *)
(*   close, keep    the header Connection: close, Connection: Keep-Alive   *)
(***************************************************************************)
EXTENDS Buffer, SequencesExt

CONSTANTS Texts,        \* the texts the peer sends
          MaxPieces,    \* bound on the pieces it sends
          MaxSegment    \* bound on the pieces of one segment

CRLF == "CRLF"
Pieces == Texts \cup {CRLF}
RequestLines == {"get11", "get10", "miss11"}
Headers == {"close", "keep"}

ASSUME HttpAssumption ==
    /\ Texts \subseteq RequestLines \cup Headers \cup {"badVersion"}
    /\ Pieces \subseteq Bytes
    /\ MaxPieces \in Nat /\ MaxSegment \in Nat

VARIABLES connected,     \* is the connection up?
          inputBuffer_,
          context,       \* its HttpContext
          sent,          \* history: the pieces that have arrived
          answers,       \* history: what was sent back
          pc             \* where the connection's thread is

httpVars == <<connected, inputBuffer_, context, sent, answers, pc>>

NewRequest == [method |-> "kInvalid", version |-> "kUnknown", known |-> FALSE, connection |-> ""]
NewContext == [state_ |-> "kExpectRequestLine", request_ |-> NewRequest]

Request == [method : {"kInvalid", "kGet"}, version : {"kUnknown", "kHttpV10", "kHttpV11"},
            known : BOOLEAN, connection : {"", "close", "keep"}]
Answer == [status : {200, 400, 404}, close : BOOLEAN]
BadRequest == [status |-> 400, close |-> FALSE]

(* waits: for a message; parses: in parseRequest; parsed, refused: after   *)
(* it, with ok true or false; aborts: an assert failed; spins:             *)
(* parseRequest loops for ever.                                            *)
Places == {"waits", "parses", "parsed", "refused", "aborts", "spins"}

HttpTypeOK ==
    /\ connected \in BOOLEAN
    /\ inputBuffer_ \in BufferType
    /\ context \in [state_ : {"kExpectRequestLine", "kExpectHeaders", "kGotAll"}, request_ : Request]
    /\ sent \in Seq(Pieces) /\ Len(sent) <= MaxPieces
    /\ answers \in Seq(Answer)
    /\ pc \in Places

HttpInit ==
    /\ connected = FALSE
    /\ inputBuffer_ = NewBuffer /\ context = NewContext
    /\ sent = <<>> /\ answers = <<>> /\ pc = "waits"

-----------------------------------------------------------------------------
(* findCRLF: the line ends in the unread bytes.                            *)
LineEnds(b) == {i \in (b.readerIndex_ + 1)..b.writerIndex_ : b.buffer_[i] = CRLF}
findCRLF(b) == Min(LineEnds(b))

(* The text from peek() to the CRLF; "" if there is none.                  *)
Text(b) == IF findCRLF(b) = b.readerIndex_ + 1 THEN "" ELSE b.buffer_[b.readerIndex_ + 1]

retrieveUntil(b, crlf) == retrieve(b, crlf - b.readerIndex_)

-----------------------------------------------------------------------------
(* HttpRequest::setMethod, reached for every text with a space in it,      *)
(* asserts that there is no method yet.                                    *)
MethodAssertFails(req, text) == text # "" /\ req.method # "kInvalid"

(* HttpContext::processRequestLine: the request it leaves behind.          *)
WithRequestLine(req, text) ==
    [req EXCEPT !.method = IF text \in RequestLines \cup {"badVersion"} THEN "kGet" ELSE @,
                !.known = text \in {"get11", "get10"},
                !.version = CASE text = "get10" -> "kHttpV10"
                              [] text \in {"get11", "miss11"} -> "kHttpV11"
                              [] OTHER -> @]

(* HttpRequest::addHeader; a line without a colon ends the headers.        *)
IsHeader(text) == text \in Headers
WithHeader(req, text) == [req EXCEPT !.connection = text]

(* Mutant: parseRequest takes one line.                                    *)
OneLine(state) == FALSE

(* hasMore after a line.                                                   *)
HasMore(state) == state # "kGotAll"

(* One turn of the loop of HttpContext::parseRequest: a request line, a    *)
(* header line, or no line to take. In state kGotAll the loop has no       *)
(* branch, and never ends.                                                 *)
NoLine ==
    /\ context.state_ = "kGotAll" \/ LineEnds(inputBuffer_) = {}
    /\ pc' = IF context.state_ = "kGotAll" THEN "spins" ELSE "parsed"
    /\ UNCHANGED <<context, inputBuffer_>>

RequestLine ==
    LET text == Text(inputBuffer_)
        req == WithRequestLine(context.request_, text)
        ok == text \in RequestLines
    IN  /\ context.state_ = "kExpectRequestLine" /\ LineEnds(inputBuffer_) # {}
        /\ IF MethodAssertFails(context.request_, text)
           THEN pc' = "aborts" /\ UNCHANGED <<context, inputBuffer_>>
           ELSE /\ context' = [state_ |-> IF ok THEN "kExpectHeaders" ELSE "kExpectRequestLine",
                               request_ |-> req]
                /\ inputBuffer_' = IF ok THEN retrieveUntil(inputBuffer_, findCRLF(inputBuffer_))
                                         ELSE inputBuffer_
                /\ pc' = IF ~ok THEN "refused"
                         ELSE IF HasMore("kExpectHeaders") THEN "parses" ELSE "parsed"

HeaderLine ==
    LET text == Text(inputBuffer_)
        state == IF IsHeader(text) THEN "kExpectHeaders" ELSE "kGotAll"
    IN  /\ context.state_ = "kExpectHeaders" /\ LineEnds(inputBuffer_) # {}
        /\ context' = [state_ |-> state,
                       request_ |-> IF IsHeader(text) THEN WithHeader(context.request_, text)
                                                      ELSE context.request_]
        /\ inputBuffer_' = retrieveUntil(inputBuffer_, findCRLF(inputBuffer_))
        /\ pc' = IF HasMore(state) THEN "parses" ELSE "parsed"

parseRequest ==
    /\ pc = "parses"
    /\ NoLine \/ RequestLine \/ HeaderLine
    /\ UNCHANGED <<connected, sent, answers>>

-----------------------------------------------------------------------------
(* Mutant: only the state is reset.                                        *)
StateReset(c) == [c EXCEPT !.state_ = "kExpectRequestLine"]

(* HttpContext::reset.                                                     *)
reset(c) == NewContext

(* Mutant: a keep-alive of HTTP/1.0 is not looked for.                     *)
ClosesUnless11(req) == req.connection = "close" \/ req.version = "kHttpV10"

(* onRequest: does the request ask for the connection to be closed?        *)
Closes(req) ==
    req.connection = "close" \/ (req.version = "kHttpV10" /\ req.connection # "keep")

(* The callback of the example server: what it makes of the response.      *)
ExampleCallback(req, resp) ==
    IF req.known THEN [resp EXCEPT !.status = 200]
                 ELSE [resp EXCEPT !.status = 404, !.close = TRUE]

(* The response that onRequest sends: its status, and whether it announces *)
(* Connection: close (and then no length).                                 *)
onRequest(req) == ExampleCallback(req, [status |-> 0, close |-> Closes(req)])

(* TcpConnection::shutdown of a connected connection does nothing.         *)
AfterShutdown(up) == up

(* onConnection, up and down.                                              *)
Connect ==
    /\ pc = "waits" /\ ~connected /\ sent = <<>>
    /\ connected' = TRUE
    /\ context' = NewContext
    /\ UNCHANGED <<inputBuffer_, sent, answers, pc>>

Disconnect ==
    /\ pc = "waits" /\ connected
    /\ connected' = FALSE
    /\ UNCHANGED <<inputBuffer_, context, sent, answers, pc>>

(* The peer's lines: a text is followed by its CRLF.                       *)
EndsTexts(s) == \A i \in 1..(Len(s) - 1) : s[i] # CRLF => s[i + 1] = CRLF
Segments == [n \in 1..MaxSegment |-> {s \in [1..n -> Pieces] : EndsTexts(s)}]

(* handleRead reads a segment and calls onMessage, which goes into         *)
(* parseRequest.                                                           *)
OnMessage(segment) ==
    /\ connected /\ pc = "waits"
    /\ Len(segment) <= ReadLimit(inputBuffer_)
    /\ sent # <<>> /\ Last(sent) # CRLF => Head(segment) = CRLF
    /\ sent' = sent \o segment
    /\ inputBuffer_' = readFd(inputBuffer_, segment)
    /\ pc' = "parses"
    /\ UNCHANGED <<connected, context, answers>>

(* The rest of onMessage: what is sent back, and the shutdown.             *)
Replies ==
    (IF pc = "refused" THEN <<BadRequest>> ELSE <<>>)
    \o (IF context.state_ = "kGotAll" THEN <<onRequest(context.request_)>> ELSE <<>>)

EndMessage ==
    /\ pc \in {"parsed", "refused"}
    /\ answers' = answers \o Replies
    /\ context' = IF context.state_ = "kGotAll" THEN reset(context) ELSE context
    /\ connected' = IF \E i \in 1..Len(Replies) : Replies[i].close \/ Replies[i].status = 400
                    THEN AfterShutdown(connected) ELSE connected
    /\ pc' = "waits"
    /\ UNCHANGED <<inputBuffer_, sent>>

HttpNext ==
    \/ Connect \/ Disconnect \/ parseRequest \/ EndMessage
    \/ \E n \in 1..MaxSegment : /\ Len(sent) + n <= MaxPieces
                               /\ \E segment \in Segments[n] : OnMessage(segment)

HttpSpec == HttpInit /\ [][HttpNext]_httpVars

-----------------------------------------------------------------------------
(* Reference: what a stream of pieces asks for, piece by piece. A request  *)
(* is a request line, headers, and any line that is no header.             *)
(*   answers   to the requests that are complete                           *)
(*   first     the request line of the one that is not, "" if none         *)
(*   header    its last header                                             *)
(*   text      of the line that is not complete                            *)
(*   bad       a line in the place of a request line was none              *)
NothingAsked == [answers |-> <<>>, first |-> "", header |-> "", text |-> "", bad |-> FALSE]

AnswerTo(first, header) ==
    IF first = "miss11" THEN [status |-> 404, close |-> TRUE]
    ELSE [status |-> 200, close |-> IF first = "get10" THEN header # "keep" ELSE header = "close"]

WithLine(acc, line) ==
    IF acc.first = ""
    THEN IF line \in RequestLines THEN [acc EXCEPT !.first = line, !.text = ""]
                                  ELSE [acc EXCEPT !.bad = TRUE, !.text = ""]
    ELSE IF line \in Headers THEN [acc EXCEPT !.header = line, !.text = ""]
    ELSE [NothingAsked EXCEPT !.answers = Append(acc.answers, AnswerTo(acc.first, acc.header))]

WithPiece(acc, piece) ==
    IF acc.bad THEN acc
    ELSE IF piece = CRLF THEN WithLine(acc, acc.text) ELSE [acc EXCEPT !.text = piece]

Asked(s) ==
    LET run[n \in 0..Len(s)] == IF n = 0 THEN NothingAsked ELSE WithPiece(run[n - 1], s[n])
    IN  run[Len(s)]

(* However the stream is cut into segments, the requests are answered in   *)
(* order, each from its own lines alone, and a line that is no request     *)
(* line is answered with 400 after everything before it and before nothing *)
(* else.                                                                   *)
AnswersInOrder ==
    \E n \in 0..Len(answers) :
        /\ IsPrefix(SubSeq(answers, 1, n), Asked(sent).answers)
        /\ \A i \in (n + 1)..Len(answers) : answers[i] = BadRequest
        /\ n < Len(answers) => Asked(sent).bad /\ n = Len(Asked(sent).answers)

(* Every message gets the next complete request answered, one and no more, *)
(* or, if there is none, the line that blocks the stream refused. A second *)
(* request that came with it waits for the next message: onMessage calls   *)
(* parseRequest once.                                                      *)
MessageMakesProgress ==
    [][EndMessage =>
          LET asked == Asked(sent) IN
          answers' = IF Len(asked.answers) > Len(answers)
                     THEN Append(answers, asked.answers[Len(answers) + 1])
                     ELSE IF asked.bad THEN Append(answers, BadRequest) ELSE answers]_httpVars

(* parseRequest's loop ends, and the assert in setMethod fails on no       *)
(* connection whose requests were all accepted.                            *)
ParserSurvives ==
    /\ pc # "spins"
    /\ pc = "aborts" => \E i \in 1..Len(answers) : answers[i] = BadRequest
=============================================================================
