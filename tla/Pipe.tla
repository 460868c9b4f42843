-------------------------------- MODULE Pipe --------------------------------
(***************************************************************************)
(* The pipe by which other threads give commands to a TcpListener.  They   *)
(* write a line with write_pipe(); the listener waits for an               *)
(* edge-triggered event of the pipe and then takes the lines out of it     *)
(* with a PipeReader, which keeps in m_buff2 what it has read beyond the   *)
(* line it returns.                                                        *)
(*                                                                         *)
(* External, as pipe(7) and epoll(7) have it: a write of a few bytes is    *)
(* made whole or not at all, and an event is only sure to come when bytes  *)
(* are written to an empty pipe.                                           *)
(***************************************************************************)
EXTENDS Naturals, Sequences, FiniteSets, FiniteSetsExt, SequencesExt

CONSTANTS
  Writers,     \* threads that write commands
  Lines,       \* commands: sequences of bytes, the last of them a newline
  Newline,
  StopLine,    \* PIPE_CMD_SET_STOPPED, one of Lines
  PipeRoom,    \* bytes the pipe holds
  BuffSize,    \* sizeof(m_buff)
  ReadTries,   \* the 16 of read_pipe()
  MaxLines     \* bound on the commands written

VARIABLES
  pipe,           \* bytes in the pipe
  signalled,      \* epoll has an event for the listener
  writer,         \* thread -> the line of its write_pipe(), <<>> for none
  written,        \* commands that went into the pipe, in that order
  nlines,
  listener,       \* "top" of the loop, "epoll", "reading", "stopped"
  tries,          \* k of read_pipe()
  m_buff,         \* the m_index bytes to which read_pipe() appends
  m_buff2,
  commands,       \* lines read_pipe() returned
  stop            \* is_shutdown_requested()

pipevars == <<pipe, signalled, writer, written, nlines, listener, tries, m_buff, m_buff2,
              commands, stop>>
writing == <<pipe, signalled, writer, written, nlines, stop>>
reading == <<listener, tries, m_buff, m_buff2, commands>>

PipeInit ==
  /\ pipe = <<>> /\ signalled = FALSE
  /\ writer = [w \in Writers |-> <<>>]
  /\ written = <<>> /\ nlines = 0
  /\ listener = "top" /\ tries = 0
  /\ m_buff = <<>> /\ m_buff2 = <<>>
  /\ commands = <<>>
  /\ stop = FALSE

-----------------------------------------------------------------------------
(* Writers *)

\* A thread has a command for the listener.
Begin(w) ==
  /\ writer[w] = <<>>
  /\ nlines < MaxLines
  /\ nlines' = nlines + 1
  /\ \E msg \in Lines : writer' = [writer EXCEPT ![w] = msg]
  /\ UNCHANGED <<pipe, signalled, written, stop, reading>>

\* write(2) on a pipe in non-blocking mode.
Fits(msg) == Len(pipe) + Len(msg) <= PipeRoom

\* write_pipe(): the command goes into the pipe, or, when the pipe is full, is lost.
\* The -1 that write(2) returns then is compared with a length without a sign, so
\* that it passes for a write of the whole line and the loop is left.
write_pipe(w) ==
  /\ writer[w] # <<>>
  /\ writer' = [writer EXCEPT ![w] = <<>>]
  /\ \/ /\ Fits(writer[w])
        /\ pipe' = pipe \o writer[w]
        /\ signalled' = (signalled \/ pipe = <<>>)
        /\ written' = Append(written, writer[w])
     \/ /\ ~Fits(writer[w])
        /\ UNCHANGED <<pipe, signalled, written>>
  /\ UNCHANGED <<nlines, stop, reading>>

\* TcpListener::shutdown(): the flag is set, then a command is written, which is only
\* there to wake the listener up.
Shutdown(w) ==
  /\ ~stop
  /\ writer[w] = <<>>
  /\ stop' = TRUE
  /\ writer' = [writer EXCEPT ![w] = StopLine]
  /\ UNCHANGED <<pipe, signalled, written, nlines, reading>>

-----------------------------------------------------------------------------
(* The listener *)

\* The while loop of listener0() and listener1(), as far as the pipe is concerned.
LoopTop ==
  /\ listener = "top"
  /\ listener' = IF stop THEN "stopped" ELSE "epoll"
  /\ UNCHANGED <<tries, m_buff, m_buff2, commands, writing>>

\* epoll_wait() returns with the event of the pipe.
EpollWait ==
  /\ listener = "epoll"
  /\ signalled
  /\ listener' = "reading"
  /\ tries' = 0
  /\ signalled' = FALSE
  /\ UNCHANGED <<m_buff, m_buff2, commands, pipe, writer, written, nlines, stop>>

\* It returns with nothing for the pipe: its timeout, an error, or other events.
Timeout ==
  /\ listener = "epoll"
  /\ ~signalled
  /\ listener' = "top"
  /\ UNCHANGED <<tries, m_buff, m_buff2, commands, writing>>

\* The first line of the bytes s, and the bytes after it.
HasLine(s) == \E i \in 1..Len(s) : s[i] = Newline
LineEnd(s) == Min({i \in 1..Len(s) : s[i] = Newline})
FirstLine(s) == SubSeq(s, 1, LineEnd(s))
AfterLine(s) == SubSeq(s, LineEnd(s) + 1, Len(s))

\* read_pipe() returns a line, which the listener carries out, and is called again.
ReturnLine(s) ==
  /\ commands' = Append(commands, FirstLine(s))
  /\ m_buff' = <<>>
  /\ m_buff2' = AfterLine(s)
  /\ tries' = 0

\* What an earlier call has left in m_buff2: a line, or the beginning of one, to
\* which the bytes read next are appended.
TakeRest ==
  /\ listener = "reading"
  /\ m_buff2 # <<>>
  /\ \/ HasLine(m_buff2) /\ ReturnLine(m_buff2)
     \/ /\ ~HasLine(m_buff2)
        /\ m_buff' = m_buff2
        /\ m_buff2' = <<>>
        /\ UNCHANGED <<tries, commands>>
  /\ UNCHANGED <<listener, writing>>

\* The bytes read(2) returns: what is there and fits into m_buff.
Available == Min({Len(pipe), BuffSize - Len(m_buff) - 1})

\* A round of the loop of read_pipe().
ReadRound ==
  /\ listener = "reading"
  /\ m_buff2 = <<>>
  /\ tries < ReadTries
  /\ pipe' = SubSeq(pipe, Available + 1, Len(pipe))
  /\ LET s == m_buff \o SubSeq(pipe, 1, Available)
     IN  \/ HasLine(s) /\ ReturnLine(s)
         \/ /\ ~HasLine(s)
            /\ m_buff' = s
            /\ tries' = tries + 1
            /\ UNCHANGED <<m_buff2, commands>>
  /\ UNCHANGED <<listener, signalled, writer, written, nlines, stop>>

\* A variant that takes the event for done when the pipe has been read.
NoLineClears ==
  /\ listener = "reading"
  /\ m_buff2 = <<>>
  /\ tries = ReadTries
  /\ listener' = "top"
  /\ signalled' = FALSE
  /\ UNCHANGED <<tries, m_buff, m_buff2, commands, pipe, writer, written, nlines, stop>>

\* read_pipe() returns nullptr: the listener goes back to epoll_wait().
NoLine ==
  /\ listener = "reading"
  /\ m_buff2 = <<>>
  /\ tries = ReadTries
  /\ listener' = "top"
  /\ UNCHANGED <<tries, m_buff, m_buff2, commands, writing>>

\* What the listener does without waiting for a timeout.
Listener == LoopTop \/ EpollWait \/ TakeRest \/ ReadRound \/ NoLine

PipeNext ==
  \/ \E w \in Writers : Begin(w) \/ write_pipe(w) \/ Shutdown(w)
  \/ Listener \/ Timeout

-----------------------------------------------------------------------------
(* Properties *)

\* Without waiting for a timeout or for another command, the listener reads every
\* command that went into the pipe, although an event comes only for the first bytes,
\* and it notices a shutdown, also when the command that should wake it up was lost
\* because the pipe was full.  (The bound on the commands stands for a pause of the
\* writers; commands that were lost are not in written.)
CommandsAreRead ==
  (commands # written \/ stop) ~> (listener = "stopped" \/ (commands = written /\ ~stop))
=============================================================================
