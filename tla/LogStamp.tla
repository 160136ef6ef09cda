------------------------------- MODULE LogStamp -------------------------------
(***************************************************************************)
(* Time stamps in the log (option --logstamp).  What the child and the     *)
(* server say reaches SendToAll in pieces; the log file and every log      *)
(* client get a stamp in front of each line, however the text was cut.     *)
(* Each of them has a flag of its own that says whether the line under way *)
(* has its stamp.  SIGHUP opens the log file anew, after it was renamed.   *)
(*                                                                         *)
(* A definition named ...Bug is a faulty variant of the one it precedes.   *)
(***************************************************************************)
EXTENDS Naturals, Sequences

CONSTANTS
    Loggers,   \* clients of the log port
    MaxPiece,  \* bound: characters in one call of SendToAll
    MaxSaid    \* bound: characters said in all

ASSUME LogAssumption == MaxPiece \in Nat /\ MaxSaid \in Nat

File == "file"
ASSUME FileAssumption == File \notin Loggers

\* Those who get stamped lines.
Readers == Loggers \cup {File}

VARIABLES
    open,   \* the readers that are there: logFileFD > 0, connected clients
    sent,   \* log_stamp_sent of the file, _log_stamp_sent of each client
    out,    \* what was written to each since it was opened
    text,   \* history: what was said since then
    begun,  \* history: was the output in the middle of a line at that time
    inLine, \* history: is it now
    missed, \* history: was something said while the file was not open
    said    \* bound: how much has been said

vars == <<open, sent, out, text, begun, inLine, missed, said>>

Chars == {"c", "nl"}
Text == Seq(Chars)
Pieces == UNION {[1..n -> Chars] : n \in 1..MaxPiece}

TypeOK ==
    /\ open \subseteq Readers
    /\ sent \in [Readers -> BOOLEAN] /\ begun \in [Readers -> BOOLEAN]
    /\ out \in [Readers -> Seq(Chars \cup {"stamp"})]
    /\ text \in [Readers -> Text]
    /\ inLine \in BOOLEAN /\ missed \in BOOLEAN
    /\ said \in 0..MaxSaid

Init ==
    /\ open = {File}
    /\ sent = [r \in Readers |-> FALSE] /\ begun = [r \in Readers |-> FALSE]
    /\ out = [r \in Readers |-> <<>>] /\ text = [r \in Readers |-> <<>>]
    /\ inLine = FALSE /\ missed = FALSE /\ said = 0

-----------------------------------------------------------------------------
\* Faulty: the flag is local, so that every piece begins with a stamp.
WritesBug(message, flag) ==
    LET loop[i \in 0..Len(message)] ==
          IF i = 0 THEN [out |-> <<>>, j |-> 1, sent |-> FALSE]
          ELSE LET stamped == [loop[i - 1] EXCEPT
                     !.out = IF loop[i - 1].sent THEN @ ELSE Append(@, "stamp"),
                     !.sent = TRUE]
               IN  IF message[i] # "nl" THEN stamped
                   ELSE [out |-> stamped.out \o SubSeq(message, stamped.j, i),
                         j |-> i + 1, sent |-> FALSE]
        end == loop[Len(message)]
    IN  [out |-> end.out \o SubSeq(message, end.j, Len(message)),
         sent |-> end.sent]

(***************************************************************************)
(* The loop over a message: i runs over its characters, j is the first one *)
(* that is not written yet.  A stamp is written when a character turns up  *)
(* in a line without one, a line when its end turns up, what is left over  *)
(* at the end.                                                             *)
(***************************************************************************)
Writes(message, flag) ==
    LET loop[i \in 0..Len(message)] ==
          IF i = 0 THEN [out |-> <<>>, j |-> 1, sent |-> flag]
          ELSE LET stamped == [loop[i - 1] EXCEPT
                     !.out = IF loop[i - 1].sent THEN @ ELSE Append(@, "stamp"),
                     !.sent = TRUE]
               IN  IF message[i] # "nl" THEN stamped
                   ELSE [out |-> stamped.out \o SubSeq(message, stamped.j, i),
                         j |-> i + 1, sent |-> FALSE]
        end == loop[Len(message)]
    IN  [out |-> end.out \o SubSeq(message, end.j, Len(message)),
         sent |-> end.sent]

\* Faulty: a client's flag is forgotten.
SendToAllBug(message) ==
    /\ said + Len(message) <= MaxSaid /\ said' = said + Len(message)
    /\ out' = [r \in Readers |->
                 IF r \in open THEN out[r] \o Writes(message, sent[r]).out
                               ELSE out[r]]
    /\ sent' = [sent EXCEPT ![File] =
                 IF File \in open THEN Writes(message, @).sent ELSE @]
    /\ text' = [r \in Readers |->
                  IF r \in open THEN text[r] \o message ELSE text[r]]
    /\ inLine' = (message[Len(message)] # "nl")
    /\ missed' = (missed \/ File \notin open)
    /\ UNCHANGED <<open, begun>>

\* A message of the child or of the server.
SendToAll(message) ==
    /\ said + Len(message) <= MaxSaid /\ said' = said + Len(message)
    /\ out' = [r \in Readers |->
                 IF r \in open THEN out[r] \o Writes(message, sent[r]).out
                               ELSE out[r]]
    /\ sent' = [r \in Readers |->
                  IF r \in open THEN Writes(message, sent[r]).sent ELSE sent[r]]
    /\ text' = [r \in Readers |->
                  IF r \in open THEN text[r] \o message ELSE text[r]]
    /\ inLine' = (message[Len(message)] # "nl")
    /\ missed' = (missed \/ File \notin open)
    /\ UNCHANGED <<open, begun>>

\* r is opened, with nothing written so far.
Opened(r) ==
    /\ open' = open \cup {r}
    /\ out' = [out EXCEPT ![r] = <<>>] /\ text' = [text EXCEPT ![r] = <<>>]
    /\ begun' = [begun EXCEPT ![r] = inLine]

LoggerConnects(l) ==
    /\ l \notin open
    /\ Opened(l)
    /\ sent' = [sent EXCEPT ![l] = FALSE]
    /\ UNCHANGED <<inLine, missed, said>>

LoggerLeaves(l) ==
    /\ l \in open /\ open' = open \ {l}
    /\ UNCHANGED <<sent, out, text, begun, inLine, missed, said>>

\* SIGHUP: a new file, the flag is left as it is.
OpenLogFile ==
    /\ Opened(File)
    /\ UNCHANGED <<sent, inLine, missed, said>>

\* The file cannot be opened: the server goes on without.
OpenLogFileFails ==
    /\ open' = open \ {File}
    /\ UNCHANGED <<sent, out, text, begun, inLine, missed, said>>

Next ==
    \/ \E message \in Pieces : SendToAll(message)
    \/ \E l \in Loggers : LoggerConnects(l) \/ LoggerLeaves(l)
    \/ OpenLogFile \/ OpenLogFileFails

Spec == Init /\ [][Next]_vars

-----------------------------------------------------------------------------
\* The stamped form of a text that begins in the middle of a line or not:
\* place k of the result is a stamp if a line begins there.
LineBegins(s, k, middle) == IF k = 1 THEN ~middle ELSE s[k - 1] = "nl"

Expected(s, middle) ==
    LET form[k \in 0..Len(s)] ==
          IF k = 0 THEN <<>>
          ELSE form[k - 1] \o (IF LineBegins(s, k, middle)
                               THEN <<"stamp", s[k]>> ELSE <<s[k]>>)
    IN  form[Len(s)]

\* In the log file there is a stamp in front of every line, and only there:
\* also when the file is changed in the middle of a line.  (A file that could
\* not be opened for a while may miss the end of a line; the flag does, too.)
FileStamped == ~missed => out[File] = Expected(text[File], begun[File])

\* A log client sees a stamp when it is first sent something, and in front of
\* every line.
LoggersStamped == \A l \in Loggers : out[l] = Expected(text[l], FALSE)
=============================================================================
