------------------------------ MODULE Console ------------------------------
(***************************************************************************)
(* Keyboard and programs that share the screen: the interrupts that bring  *)
(* keys, ticks and system calls to their handlers (Interrupts), what these *)
(* do to keyboard and screen (Keyboard, Screen), and threads in user mode: *)
(* the shell, lishell/main.c, and other programs that call printf (Printf).*)
(* A thread's step is what it does up to its next access to something      *)
(* shared; a handler's step is one character or one command to a chip.     *)
(*                                                                         *)
(* It begins where kmain has enabled interrupts.  Processes have one       *)
(* thread each, and the queue is the links that ticks follow and exits     *)
(* change; Scheduler has the rest of it.                                   *)
(***************************************************************************)
EXTENDS Screen, Keyboard, Interrupts, Printf

CONSTANTS
  Ring,        \* the threads, in the order of the queue
  Idle,        \* the kernel's, which halts until the next interrupt
  Shell,       \* the thread of the shell
  ShellText,   \* the string the shell takes apart
  Sessions,    \* [users, presses]: the programs loaded and how many keys are pressed
  Calls,       \* what other threads may pass to printf
  Faults       \* exceptions that threads may raise

ASSUME FaultsAssumption == Faults \subseteq 0 .. 31

\* What the programs pass to printf.
ASSUME CallsAssumption == \A pieces \in Calls : WellFormed(pieces)

\* The string in the shell's main: words with delimiters between them.  Of a
\* single word strtok makes no token, and it finds empty ones for ever behind
\* a delimiter at the end.

ASSUME ShellTextAssumption ==
  /\ ShellText \in Seq(ToSet(ShellText) \ {"%"})
  /\ ShellText # <<>> /\ \A i \in DOMAIN ShellText : ShellText[i] = NUL <=> i = Len(ShellText)
  /\ \E i \in 1 .. Len(ShellText) - 1 : ShellText[i] \in Delimiters
  /\ ShellText[Len(ShellText) - 1] \notin Delimiters

ASSUME ShellAssumption == Shell \in ToSet(Ring)

VARIABLES
  screen,      \* [mem, curX, curY, cursor]
  text,        \* ghost: the text of Terminal, message by message
  current,     \* the thread that goes on when no handler runs
  next,        \* the links of the queue, from the last one to the first
  previous,    \* previousProc
  thread,      \* what each thread does
  halted       \* the panic screen is up

queue == <<current, next, previous>>

vars == <<keyboard, interrupts, screen, text, queue, thread, halted>>

Threads == ToSet(Ring)

New == [pc |-> "new", mem |-> ShellText, context |-> NULL, s |-> NULL,
        call |-> Call(<<>>), said |-> <<>>]

\* Who comes behind t when these are in the queue.
Behind(t, members) ==
  LET n == Len(Ring)
      p == CHOOSE i \in 1 .. n : Ring[i] = t
      q == CHOOSE k \in 1 .. n : /\ Ring[((p + k - 1) % n) + 1] \in members
                                 /\ \A j \in 1 .. k - 1 : Ring[((p + j - 1) % n) + 1] \notin members
  IN  Ring[((p + q - 1) % n) + 1]

Init ==
  /\ InitInterrupts
  /\ screen = [mem |-> Window(<<>>), curX |-> 0, curY |-> 0, cursor |-> 0]
  /\ text = <<>>
  /\ current = Idle /\ previous = Idle
  /\ \E session \in Sessions :
       /\ InitKeyboard(session.presses)
       /\ next = [t \in Threads |-> Behind(t, session.users \cup {Idle})]
       /\ thread = [t \in Threads |->
            IF t \in session.users \cup {Idle} THEN New ELSE [New EXCEPT !.pc = "unrun"]]
  /\ halted = FALSE

-----------------------------------------------------------------------------
(* The devices.  They act while no handler runs: a request that comes up   *)
(* during a handler has to wait for its end anyway.                        *)

KeyEvent ==
  /\ frames = <<>>
  /\ \E k \in Keys : Press(k) \/ Release(k)
  /\ irr' = IF codes = <<>> THEN irr \cup {1} ELSE irr
  /\ UNCHANGED <<inService, enabled, frames, screen, text, queue, thread, halted>>

Raise(line) ==
  /\ frames = <<>>
  /\ line \notin irr
  /\ irr' = irr \cup {line}
  /\ UNCHANGED <<keyboard, inService, enabled, frames, screen, text, queue, thread, halted>>

\* A thread that has ended has printed all or has not got as far as main.
Live(t) == thread[t].pc \notin {"exited", "unrun"}

\* All handlers together take less than the 5 ms between two ticks.
Tick == irr = {} /\ 0 \in Lines /\ Raise(0)

OtherDevice == \E line \in Lines \ {0, 1} : Raise(line)

Interrupt ==
  /\ ~halted /\ Live(current)
  /\ Deliver
  /\ UNCHANGED <<keyboard, screen, text, queue, thread, halted>>

-----------------------------------------------------------------------------
(* The handlers.  irq_routines leads from a line to its handler; lines     *)
(* without one are only acknowledged.                                      *)

Handles(n) == frames # <<>> /\ Frame.at = "handler" /\ Frame.int = n /\ ~halted

\* A switch follows the link, to whomever it leads: when that one has ended,
\* which two exits with no switch between them bring about (scheduler.c:195),
\* the behaviour is taken no further.
timer_handler ==
  /\ Handles(32)
  /\ current' = next[current] /\ previous' = current
  /\ Goes("eoi", <<>>)
  /\ UNCHANGED <<keyboard, irr, inService, enabled, next, screen, text, thread, halted>>

\* Reading the port makes room for the next code, which raises the line again.
KeyboardInterrupt ==
  /\ Handles(33)
  /\ keyboard_handler
  /\ irr' = IF Tail(codes) # <<>> THEN irr \cup {1} ELSE irr
  /\ text' = Said(text, Printed)
  /\ Goes("print", Printed)
  /\ UNCHANGED <<inService, enabled, screen, queue, thread, halted>>

\* SYSCALL_PRINT: the string is read where the thread has it.
call_handler_print ==
  /\ Handles(SYSTEM_CALL) /\ thread[current].pc \notin {"exit", "abort"}
  /\ text' = Said(text, Frame.todo)
  /\ Goes("print", Frame.todo)
  /\ UNCHANGED <<keyboard, irr, inService, enabled, screen, queue, thread, halted>>

\* A slip: the process that ends stays in the queue.
Unlinked_not == next

\* The queue without the current process, if previous is the one before it.
Unlinked == [next EXCEPT ![previous] = next[current]]

\* SYSCALL_EXIT: the thread is gone when the next one goes on.
call_handler_exit ==
  /\ Handles(SYSTEM_CALL) /\ thread[current].pc \in {"exit", "abort"}
  /\ thread' = [thread EXCEPT ![current].pc = IF thread[current].pc = "exit" THEN "exited" ELSE "unrun"]
  /\ next' = Unlinked /\ current' = Unlinked[current] /\ previous' = current
  /\ Goes("eoi", <<>>)
  /\ UNCHANGED <<keyboard, irr, inService, enabled, screen, text, halted>>

NoHandler ==
  /\ \E line \in Lines \ {0, 1} : Handles(32 + line)
  /\ Goes("eoi", <<>>)
  /\ UNCHANGED <<keyboard, irr, inService, enabled, screen, text, queue, thread, halted>>

\* The first fault of a thread, at 0xDEADBEEF, has its program loaded.
FirstFault ==
  /\ Handles(PAGE_FAULT) /\ thread[current].pc = "new"
  /\ thread' = [thread EXCEPT ![current].pc = "startup"]
  /\ Goes("eoi", <<>>)
  /\ UNCHANGED <<keyboard, irr, inService, enabled, screen, text, queue, halted>>

\* A program that cannot be loaded is the end, and so is any other exception:
\* the message at its place, no cursor, and a processor that is halted with
\* interrupts off.
panic_display_message ==
  /\ \E n \in Faults \cup {PAGE_FAULT} : Handles(n)
  /\ screen' = hide_cursor(print_string_at(<<"!">>, 1, 1, clear_screen(screen)))
  /\ halted' = TRUE
  /\ UNCHANGED <<keyboard, interrupts, text, queue, thread>>

\* print_string, character by character, and update_cursor_pos.
PrintNext ==
  /\ frames # <<>> /\ Frame.at = "print"
  /\ IF Frame.todo # <<>>
     THEN /\ screen' = print_char(Head(Frame.todo), screen)
          /\ Goes("print", Tail(Frame.todo))
     ELSE /\ screen' = update_cursor_pos(screen)
          /\ Goes("eoi", <<>>)
  /\ UNCHANGED <<keyboard, irr, inService, enabled, text, queue, thread, halted>>

Leave ==
  /\ eoi \/ iret
  /\ UNCHANGED <<keyboard, screen, text, queue, thread, halted>>

Handler ==
  /\ Live(current)
  /\ \/ timer_handler
     \/ KeyboardInterrupt
     \/ call_handler_print
     \/ call_handler_exit
     \/ NoHandler
     \/ FirstFault
     \/ panic_display_message
     \/ PrintNext
     \/ Leave

-----------------------------------------------------------------------------
(* The threads.                                                            *)

Runs(t, pc) == current = t /\ frames = <<>> /\ thread[t].pc = pc

Local == UNCHANGED <<keyboard, interrupts, screen, text, queue, halted>>

Calling(n, what) ==
  /\ Enters(n, what)
  /\ UNCHANGED <<keyboard, irr, inService, screen, text, queue, halted>>

Start(t) ==
  /\ Runs(t, "new")
  /\ Calling(PAGE_FAULT, <<>>)
  /\ UNCHANGED thread

\* __lios_startup sets up the heap, which may fail.
lios_startup(t) ==
  /\ Runs(t, "startup")
  /\ \E pc \in {"main", "abort"} : thread' = [thread EXCEPT ![t].pc = pc]
  /\ Local

Crash(t) ==
  /\ current = t /\ frames = <<>> /\ Live(t) /\ thread[t].pc # "new"
  /\ \E n \in Faults : Calling(n, <<>>)
  /\ UNCHANGED thread

\* printf begins; the caller goes on at pc when it returns.
Printf(t, call, pc) == thread' = [thread EXCEPT ![t].call = call, ![t].pc = pc]

\* The string at s in the shell's memory.
String(m, s) == UpToNul(SubSeq(m, s, Len(m)))

Plain(s) == [k \in DOMAIN s |-> <<s[k]>>]

\* The loop of the shell's main: strtok, a newline, the token.
main(t) ==
  /\ Runs(t, "main") /\ t = Shell
  /\ LET r == strtok(thread[t].mem, IF thread[t].s = NULL THEN 1 ELSE NULL, thread[t].context)
     IN  thread' = [thread EXCEPT
           ![t].mem = r.mem, ![t].context = r.context, ![t].s = r.token,
           ![t].call = Call(Plain(<<Newline>>)),
           ![t].pc = IF r.token = NULL THEN "exit" ELSE "newline"]
  /\ Local

print_token(t) ==
  /\ Runs(t, "token")
  /\ Printf(t, Call(Plain(String(thread[t].mem, thread[t].s))), "word")
  /\ Local

\* Other programs call printf once and return from main.
other_main(t) ==
  /\ Runs(t, "main") /\ t # Shell
  /\ \E pieces \in Calls : Printf(t, Call(pieces), "last")
  /\ Local

Callers == {"newline", "word", "last"}
ReturnTo(pc) == CASE pc = "newline" -> "token" [] pc = "word" -> "main" [] OTHER -> "exit"

\* The next piece of the format, with what it causes to be printed.
printf(t) ==
  \E pc \in Callers :
    LET p == thread[t].call
        q == IF FlushesFirst(p) THEN p ELSE Consumed(p)
        flushes == FlushesFirst(p) \/ FlushesAfter(p)
    IN  /\ Runs(t, pc)
        /\ ~AtEnd(p) \/ p.buf # <<>>
        /\ ~Overrun(p)
        /\ thread' = [thread EXCEPT ![t].call = IF flushes THEN Flushed(q) ELSE q]
        /\ IF flushes THEN Calling(SYSTEM_CALL, UpToNul(q.buf)) ELSE Local

printf_returns(t) ==
  \E pc \in Callers :
    /\ Runs(t, pc)
    /\ AtEnd(thread[t].call) /\ thread[t].call.buf = <<>>
    /\ thread' = [thread EXCEPT ![t].pc = ReturnTo(pc), ![t].said = @ \o thread[t].call.sent,
                                ![t].call = Call(<<>>)]
    /\ Local

\* __lios_startup calls exit, with what main returns or without main.
exit(t) ==
  /\ \E pc \in {"exit", "abort"} : Runs(t, pc)
  /\ Calling(SYSTEM_CALL, <<>>)
  /\ UNCHANGED thread

Thread(t) ==
  \/ Start(t)
  \/ lios_startup(t)
  \/ main(t)
  \/ print_token(t)
  \/ other_main(t)
  \/ printf(t)
  \/ printf_returns(t)
  \/ exit(t)

Users == Threads \ {Idle}

UserStep == \E t \in Users : Thread(t)

Next ==
  \/ KeyEvent
  \/ Tick
  \/ OtherDevice
  \/ Interrupt
  \/ Handler
  \/ UserStep
  \/ \E t \in Users : Crash(t)

\* Processor and timer go on, and there is time between two ticks for whom
\* the last one gave the processor to.
FairSpec ==
  /\ Init /\ [][Next]_vars
  /\ WF_vars(Interrupt \/ Handler)
  /\ SF_vars(Tick)
  /\ SF_vars(UserStep)

-----------------------------------------------------------------------------
(* Properties.                                                             *)

Quiet == frames = <<>> /\ ~halted

\* Whenever no handler runs, screen and cursor show the messages of keyboard
\* and programs one after the other, none torn apart by another: rows wrap
\* and scroll, and a backspace takes back what is before the cursor, in the
\* row above too.
ScreenShowsText ==
  Quiet => screen.mem = Window(text) /\ screen.cursor = Len(text)

\* Handlers run one at a time on the one kernel stack there is, and outside
\* of them both controllers are ready for every line.
HandlersRunAlone ==
  /\ Len(frames) <= 1
  /\ Quiet => inService = {} /\ enabled

\* With no code waiting and none lost, keyShift is on exactly while the left
\* shift key is held, whatever else is pressed, released or repeated.
ShiftIsFollowed ==
  Quiet /\ codes = <<>> /\ ~lost => (keyShift <=> "lshift" \in down)

\* Each printf writes what its format and its arguments say, in order.
PrintfSaysAll == \A t \in Threads : SaysAll(thread[t].call)

\* The words of the shell's string, each on a row of its own.
Words ==
  <<Newline>> \o [i \in 1 .. Len(ShellText) - 1 |->
                    IF ShellText[i] \in Delimiters THEN Newline ELSE ShellText[i]]

\* The shell has printed every word when it comes back from main.
ShellPrintsWords == thread[Shell].pc = "exited" => thread[Shell].said = Words

\* No device waits for ever, on either controller.
EveryRequestIsServed ==
  \A line \in Lines : (line \in irr) ~> (line \notin irr \/ halted \/ ~Live(current))

\* Every program comes to its end, unless one of them crashes or cannot be
\* loaded: of two programs and the idle process, the exit of one leaves the
\* other in the queue.
EveryProgramEnds == <>(halted \/ \A t \in Users : ~Live(t))

=============================================================================
