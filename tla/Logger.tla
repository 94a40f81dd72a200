------------------------------- MODULE Logger -------------------------------
(***************************************************************************)
(* PosixLogger of src/src/log/posix_logger.h: threads that log to one      *)
(* stdio stream.  The asserts of Logv are compiled out, as the library is  *)
(* built.                                                                  *)
(*                                                                         *)
(* A text is a sequence of characters.  A format has the text that it      *)
(* gives with its arguments; if it has a conversion, what Logv prints is   *)
(* undefined, since it hands a va_list to snprintf.                        *)
(***************************************************************************)
EXTENDS Naturals, Sequences, FiniteSets

CONSTANTS
    kStackBufferSize,
    LogThreads,
    HeaderSize,  \* characters of time and thread; less than kStackBufferSize
    Formats,     \* formats: text, and whether a conversion is in it
    Undefined,   \* what an undefined print may put out
    NL,          \* the newline
    MaxLogs      \* bound: calls of Logv

\* The strings that are printed are sequences.
IsText(text) == text \in Seq({ text[i] : i \in 1 .. Len(text) })

ASSUME HeaderAssumption == kStackBufferSize \in Nat /\ HeaderSize \in 1 .. kStackBufferSize - 1
ASSUME FormatsAssumption ==
    \A f \in Formats : IsText(f.text) /\ f.conversion \in BOOLEAN
ASSUME UndefinedAssumption == \A text \in Undefined : IsText(text)

VARIABLES
    logv,       \* each thread's call of Logv: where it is, and its variables
    stream,     \* what fwrite has put into fp_
    log_file,   \* what fflush has put into the file
    logged,     \* the calls that have returned
    logs        \* calls, against the bound

loggerVars == <<logv, stream, log_file, logged, logs>>

NotLogging == [at |-> "out"]

LoggerInit ==
    /\ logv = [t \in LogThreads |-> NotLogging]
    /\ stream = << >> /\ log_file = << >>
    /\ logged = {} /\ logs = 0

Header(t) == [i \in 1 .. HeaderSize |-> t]

\* The text that this format is printed as.
Printed(format) == IF format.conversion THEN Undefined ELSE {format.text}

\* snprintf of all of the text into so many bytes, the last of them for the NUL.
Fitting(text, size) == IF Len(text) < size THEN text ELSE SubSeq(text, 1, size - 1)

\* Logv is called.
LogCall(t, format) ==
    /\ logv[t].at = "out"
    /\ logs < MaxLogs
    /\ logv' = [logv EXCEPT ![t] = [at |-> "print", format |-> format,
                                    iteration |-> 0, buffer_size |-> kStackBufferSize]]
    /\ logs' = logs + 1
    /\ UNCHANGED <<stream, log_file, logged>>

\* Fault: the header is not counted.
DynamicSizeOfMessage(offset) == offset - HeaderSize + 2

\* Room for the text, a newline and a NUL.
DynamicSize(offset) == offset + 2

\* One turn of the loop: header and message are printed.  If there may be no
\* room for a newline, the first turn sees to it that the second has it, and
\* the second cuts the message.
PrintLine(t) ==
    LET c == logv[t] IN
    /\ c.at = "print"
    /\ \E text \in Printed(c.format) :
         LET all == Header(t) \o text
             offset == Len(all)
             full == offset >= c.buffer_size - 1
             buffer == Fitting(all, c.buffer_size)
         IN  logv' = [logv EXCEPT ![t] =
               IF full /\ c.iteration = 0
               THEN [c EXCEPT !.iteration = 1, !.buffer_size = DynamicSize(offset)]
               ELSE [at |-> "write", format |-> c.format, buffer_size |-> c.buffer_size,
                     cut |-> full,
                     line |-> IF buffer[Len(buffer)] # NL THEN Append(buffer, NL) ELSE buffer]]
    /\ UNCHANGED <<stream, log_file, logged, logs>>

\* fwrite, under the lock of the stream.  Logv looks at the result of neither
\* fwrite nor fflush; that both succeed is assumed.
WriteLine(t) ==
    /\ logv[t].at = "write"
    /\ stream' = Append(stream, logv[t].line)
    /\ logv' = [logv EXCEPT ![t] = [at |-> "flush", format |-> @.format]]
    /\ UNCHANGED <<log_file, logged, logs>>

\* fflush writes what anybody has put into the stream; Logv returns.
FlushLine(t) ==
    /\ logv[t].at = "flush"
    /\ log_file' = log_file \o stream
    /\ stream' = << >>
    /\ logged' = logged \cup {[thread |-> t, format |-> logv[t].format]}
    /\ logv' = [logv EXCEPT ![t] = NotLogging]
    /\ UNCHANGED logs

LoggerNext ==
    \E t \in LogThreads :
        \/ \E format \in Formats : LogCall(t, format)
        \/ PrintLine(t) \/ WriteLine(t) \/ FlushLine(t)

LoggerSpec == LoggerInit /\ [][LoggerNext]_loggerVars

---------------------------------------------------------------------------
(* Properties.                                                             *)

\* The line of a text: the header before it and one newline at its end.
LineOf(t, text) ==
    LET all == Header(t) \o text
    IN  IF all[Len(all)] = NL THEN all ELSE Append(all, NL)

Entered(c) == \E i \in 1 .. Len(log_file) : log_file[i] = LineOf(c.thread, c.format.text)

\* Whatever is printed, the line with its newline lies in the buffer.  If the
\* text is defined, the message is never cut, as the comment in Logv says
\* ("This should not happen, assuming a correct implementation of
\* std::(v)snprintf"), and once Logv has returned the whole line is in the
\* file, whatever the length and whoever flushed, as long as stdio does not
\* fail: Logv ignores the results of fwrite and fflush.
LineWhole ==
    /\ \A t \in LogThreads : logv[t].at = "write" =>
         /\ Len(logv[t].line) <= logv[t].buffer_size
         /\ logv[t].cut => logv[t].format.conversion
    /\ \A c \in logged : ~c.format.conversion => Entered(c)

\* "Write an entry to the log file with the specified format", env.h line 77:
\* the file has the text of every call that has returned.
FormatsEntry == \A c \in logged : Entered(c)

=============================================================================
