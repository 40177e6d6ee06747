---------------------------- MODULE MessageLines ----------------------------
(***************************************************************************)
(* One connection, byte by byte: the chunks recv returns, the Message_Buffer  *)
(* that gathers them (message_buffer.c), the loop of handle_client that takes *)
(* lines out of it, and the lines server_send answers with.  ChatServer takes *)
(* a client's line for one that arrives whole and once; here is why it may.   *)
(***************************************************************************)
EXTENDS Naturals, Sequences

CONSTANTS
  Inputs,     \* what the client may write, as sequences of bytes
  Size,       \* SERVER_BUFFER_SIZE
  ChunkSize,  \* RECV_CHUNK_SIZE
  Ordinary, Control, Newline,   \* classes of bytes; Control are \0 \t \r \b
  Replies     \* lengths of the JSON objects the handlers send back

Bytes == Ordinary \cup Control \cup Newline

ASSUME LinesAssumption ==
  /\ Size \in Nat \ {0, 1} /\ ChunkSize \in 1..Size
  /\ Inputs \subseteq Seq(Bytes) /\ Replies \subseteq Nat

VARIABLES
  input,    \* everything the client writes before it closes
  arrived,  \* how many bytes of it recv has returned
  data,     \* the bytes of the Message_Buffer; its length is theirs
  message,  \* the line taken out of it
  length,   \* message_length
  pc,       \* "recv", "extract", "sanitize", "serve" or "end"
  served,   \* the lines handed to message_from_json
  sentJson, \* the lengths of the objects server_send was given
  out       \* what reached the socket: per send, object bytes and newlines

vars == << input, arrived, data, message, length, pc, served, sentJson, out >>

Init ==
  /\ input \in Inputs /\ arrived = 0
  /\ data = << >> /\ message = << >> /\ length = 0
  /\ pc = "recv" /\ served = << >> /\ sentJson = << >> /\ out = << >>

-----------------------------------------------------------------------------
\* A mistake: a chunk that fills the buffer to the last byte is refused.
FitsLoosely(n) == Len(data) + n < Size

\* A mistake: one byte more than the array has.
FitsOneMore(n) == Len(data) + n <= Size + 1

\* message_buffer_append
Fits(n) == Len(data) + n <= Size

(* recv returns some of what has arrived, at most a chunk.  A chunk that does
   not fit is dropped and the connection with it.                           *)
Receive ==
  /\ pc = "recv"
  /\ \E n \in 1..ChunkSize :
       /\ arrived + n <= Len(input)
       /\ arrived' = arrived + n
       /\ IF Fits(n)
          THEN data' = data \o SubSeq(input, arrived + 1, arrived + n) /\ pc' = "extract"
          ELSE pc' = "end" /\ UNCHANGED data
  /\ UNCHANGED << input, message, length, served, sentJson, out >>

\* recv returns 0, or fails.
Closed ==
  /\ pc = "recv" /\ arrived = Len(input)
  /\ pc' = "end"
  /\ UNCHANGED << input, arrived, data, message, length, served, sentJson, out >>

Newlines(s) == {i \in 1..Len(s) : s[i] \in Newline}
First(S) == CHOOSE i \in S : \A j \in S : i <= j

\* A mistake: room is left for two terminators.
CopyLengthShort(raw) == IF raw < Size - 2 THEN raw ELSE Size - 2

\* copy_length in message_buffer_extract, whose out_capacity is Size
CopyLength(raw) == IF raw < Size - 1 THEN raw ELSE Size - 1

\* A mistake: the newline stays in the buffer.
ConsumedShort(raw) == raw

\* consumed in message_buffer_extract: the line and its newline
Consumed(raw) == raw + 1

\* message_buffer_extract
Extract ==
  /\ pc = "extract" /\ Newlines(data) # {}
  /\ LET raw == First(Newlines(data)) - 1 IN
     /\ message' = SubSeq(data, 1, CopyLength(raw))
     /\ length' = raw
     /\ data' = SubSeq(data, Consumed(raw) + 1, Len(data))
  /\ pc' = "sanitize"
  /\ UNCHANGED << input, arrived, served, sentJson, out >>

NoLine ==
  /\ pc = "extract" /\ Newlines(data) = {}
  /\ pc' = "recv"
  /\ UNCHANGED << input, arrived, data, message, length, served, sentJson, out >>

Keeps(b) == b \in Ordinary

\* message_buffer_sanitize, and the test for an empty line after it
Sanitize ==
  /\ pc = "sanitize"
  /\ message' = SelectSeq(message, Keeps)
  /\ length' = Len(message')
  /\ pc' = IF length' = 0 THEN "extract" ELSE "serve"
  /\ UNCHANGED << input, arrived, data, served, sentJson, out >>

-----------------------------------------------------------------------------
\* A mistake: an object that leaves no room for its newline goes without it.
SentLineUnterminated(n) == IF n + 1 < Size THEN << n, 1 >> ELSE << n, 0 >>

(* server_send of an object of n bytes: message_to_json refuses what does not
   fit with its terminator; when there is no room for a newline as well, the
   newline takes the place of the last byte.                                *)
SentLine(n) == IF n + 1 < Size THEN << n, 1 >> ELSE << n - 1, 1 >>

(* The handler of the line, down to the message it sends back.  A line that is
   no request would end the thread here instead (ChatConnections).          *)
Serve ==
  /\ pc = "serve"
  /\ served' = Append(served, message)
  /\ \E n \in Replies :
       /\ sentJson' = Append(sentJson, n)
       /\ out' = IF n + 1 > Size THEN out ELSE Append(out, SentLine(n))
  /\ pc' = "extract"
  /\ UNCHANGED << input, arrived, data, message, length >>

Ended == pc = "end" /\ UNCHANGED vars

Step == Receive \/ Closed \/ Extract \/ NoLine \/ Sanitize \/ Serve
Next == Step \/ Ended

\* recv returns what has arrived, and the thread goes on.
Spec == Init /\ [][Next]_vars /\ WF_vars(Step)

-----------------------------------------------------------------------------
\* What the client wrote before the newline at n, back to the one before that.
RawLine(s, n) ==
  LET before == CHOOSE i \in Newlines(s) \cup {0} :
                  i < n /\ \A j \in Newlines(s) : j < n => j <= i
  IN SubSeq(s, before + 1, n - 1)

\* The lines to serve among the first n bytes of a text, for each n: those that
\* sanitizing does not leave empty.
LinesOf(s) ==
  LET Line(n) == SelectSeq(RawLine(s, n), Keeps)
      upTo[n \in 0..Len(s)] ==
        IF n = 0 THEN << >>
        ELSE IF s[n] \in Newline /\ Len(Line(n)) # 0 THEN Append(upTo[n - 1], Line(n))
        ELSE upTo[n - 1]
  IN upTo

(* Whatever the chunks, the lines served are the client's lines, whole, in
   order and once each: none is cut by message_buffer_extract, glued to
   another or repeated.  Before the thread waits for more it has served every
   line that has arrived.                                                   *)
LinesServedInOrder ==
  /\ \E n \in 0..arrived : served = LinesOf(input)[n]
  /\ pc = "recv" => served = LinesOf(input)[arrived]

(* The two arrays of handle_client hold what is put into them, message with its
   terminator.  message_buffer_extract reports raw_length and not the length it
   has copied, and message_buffer_sanitize reads that many bytes: all of them
   were copied.                                                             *)
BuffersHold ==
  /\ Len(data) <= Size
  /\ pc = "sanitize" => length = Len(message) /\ length < Size

(* A line taken out of the buffer is what the client wrote from behind the last
   newline up to the next, whatever the chunks: none is cut, glued to another or
   skipped.                                                                 *)
LinesAreWhole ==
  pc = "sanitize" =>
    LET newline == arrived - Len(data)
        first == newline - length IN
    /\ newline \in Newlines(input) /\ first - 1 \in Newlines(input) \cup {0}
    /\ message = SubSeq(input, first, newline - 1) /\ Newlines(message) = {}

(* Every line is served, as long as no line is longer than what the buffer
   leaves when a whole chunk comes after it.  Longer ones are served or end
   the connection, depending on the chunks (message_buffer.c:12).           *)
ShortLinesServed ==
  (\A n \in Newlines(input) : Len(RawLine(input, n)) <= Size - ChunkSize)
    => <>(served = LinesOf(input)[Len(input)])

(* Each send leaves a line of its own on the socket, at most as long as the
   object it was given and never longer than the buffer: a client can tell
   where one answer ends.                                                   *)
AnswersAreLines ==
  /\ \A i \in DOMAIN out : out[i][2] = 1 /\ out[i][1] + out[i][2] < Size
  /\ Len(out) <= Len(sentJson)
=============================================================================
