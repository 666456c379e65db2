------------------------------ MODULE Console -------------------------------
(***************************************************************************)
(* The console (kernel/console.c) and the UART driver (kernel/uart.c):     *)
(* processes that read and write, the interrupt handler, and the device,   *)
(* which takes one character at a time and interrupts when a character has *)
(* come in or the transmit register has become empty.                      *)
(*                                                                         *)
(* The text of the output is left out: the transmit buffer is the number   *)
(* of characters in it, and an echo of several characters is one.  How     *)
(* many characters a read() or write() asks for is left open: it ends      *)
(* after any of them.  sleep() gives up its lock and sleeps in one step    *)
(* (Sched shows that no wakeup is lost between the two).                   *)
(***************************************************************************)
EXTENDS Integers, Sequences

CONSTANTS Readers, Writers, \* processes
          INPUT_BUF_SIZE, UART_TX_BUF_SIZE,
          WRAP,             \* the counters are uint: they wrap at 2^32
          Ordinary          \* characters without a special meaning

Intr == "uartintr"          \* the handler, on the CPU that claimed the interrupt
Nobody == "nobody"
Actors == Readers \cup Writers \cup {Intr}
Stored == Ordinary \cup {"nl", "eof"}
Keys == Stored \cup {"bs", "kill", "ignored"} \* ^H, ^U; ^P and NUL change nothing
NoKey == "none"

VARIABLES
    buf, r, w, e,   \* cons.buf and its read, write and edit index
    cons_lock, uart_tx_lock,
    tx,             \* uart_tx_w - uart_tx_r
    busy,           \* the UART: the transmit holding register is full
    rhr,            \* the UART: the character that has come in
    irq,            \* the interrupt is pending
    pc,             \* per actor
    got,            \* the readers that have read a character (n < target)
    killed          \* the readers that have been killed

vars == <<buf, r, w, e, cons_lock, uart_tx_lock, tx, busy, rhr, irq, pc, got, killed>>
input == <<buf, r, w, e>>
device == <<busy, rhr, irq>>

Init ==
    /\ buf = [i \in 0 .. INPUT_BUF_SIZE - 1 |-> "nl"]
    /\ r = 0 /\ w = 0 /\ e = 0
    /\ cons_lock = Nobody /\ uart_tx_lock = Nobody
    /\ tx = 0 /\ busy = FALSE /\ rhr = NoKey /\ irq = FALSE
    /\ pc = [a \in Actors |-> "idle"]
    /\ got = {}
    /\ killed = {}

Go(a, l) == pc' = [pc EXCEPT ![a] = l]
Plus(i, k) == (i + k) % WRAP
At(i) == i % INPUT_BUF_SIZE
\* A cell outside r .. e is never looked at; give it a fixed value.
Clear(I) == [k \in DOMAIN buf |-> IF \E i \in I : At(i) = k THEN "nl" ELSE buf[k]]
Consume == r' = Plus(r, 1) /\ buf' = Clear({r})

-----------------------------------------------------------------------------
\* consoleread(): one turn of the loop, cons.lock held.  either_copyout() may
\* fail; the character is then gone.
read(p) ==
    /\ pc[p] = "idle"
    /\ Go(p, "read")
    /\ UNCHANGED <<input, cons_lock, uart_tx_lock, tx, device, got, killed>>

Return(p) == Go(p, "idle") /\ got' = got \ {p} /\ cons_lock' = Nobody

consoleread(p) ==
    LET c == buf[At(r)]
    IN  /\ pc[p] \in {"read", "reading"}
        /\ cons_lock = IF pc[p] = "read" THEN Nobody ELSE p
        /\ \/ /\ r = w /\ p \in killed
              /\ Return(p)
              /\ killed' = killed \ {p}
              /\ UNCHANGED <<buf, r>>
           \/ /\ r = w /\ p \notin killed
              /\ Go(p, "asleep")
              /\ cons_lock' = Nobody
              /\ UNCHANGED <<buf, r, got, killed>>
           \/ /\ r # w /\ c = "eof"
              /\ IF p \in got THEN UNCHANGED <<buf, r>> ELSE Consume
              /\ Return(p)
              /\ UNCHANGED killed
           \/ /\ r # w /\ c # "eof"
              /\ Consume
              /\ \/ Return(p)
                 \/ /\ c # "nl"
                    /\ Go(p, "reading")
                    /\ got' = got \cup {p}
                    /\ cons_lock' = p
              /\ UNCHANGED killed
        /\ UNCHANGED <<w, e, uart_tx_lock, tx, device>>

\* kill(): marks the process and wakes it.
kill(p) ==
    /\ p \notin killed /\ pc[p] # "idle"
    /\ killed' = killed \cup {p}
    /\ pc' = [pc EXCEPT ![p] = IF @ = "asleep" THEN "read" ELSE @]
    /\ UNCHANGED <<input, cons_lock, uart_tx_lock, tx, device, got>>

-----------------------------------------------------------------------------
\* consolewrite(): another character, or the end; either_copyin() may fail.
consolewrite(p) ==
    /\ \/ pc[p] = "idle" /\ Go(p, "putc")
       \/ pc[p] = "putc" /\ Go(p, "idle")
    /\ UNCHANGED <<input, cons_lock, uart_tx_lock, tx, device, got, killed>>

uartputc(p) ==
    /\ pc[p] = "putc" /\ uart_tx_lock = Nobody
    /\ IF tx = UART_TX_BUF_SIZE
       THEN Go(p, "tx_asleep") /\ UNCHANGED <<tx, uart_tx_lock>>
       ELSE tx' = tx + 1 /\ uart_tx_lock' = p /\ Go(p, "start")
    /\ UNCHANGED <<input, cons_lock, device, got, killed>>

\* Mutant: nobody is told that there is room again.
Woken_not == pc

Woken == [a \in Actors |-> IF pc[a] = "tx_asleep" THEN "putc" ELSE pc[a]]
\* uartstart(): one turn of the loop up to the store to THR.
uartstart(a) ==
    /\ pc[a] = "start"
    /\ IF tx = 0 \/ busy
       THEN /\ Go(a, IF a = Intr THEN "idle" ELSE "putc")
            /\ uart_tx_lock' = Nobody
            /\ UNCHANGED tx
       ELSE /\ tx' = tx - 1
            /\ pc' = [Woken EXCEPT ![a] = "thr"]
            /\ UNCHANGED uart_tx_lock
    /\ UNCHANGED <<input, cons_lock, device, got, killed>>

\* The store to THR.  The echo does not hold uart_tx_lock, so the register may
\* have been filled since it was tested; one of the two characters is lost.
uartstart_thr(a) ==
    /\ pc[a] = "thr"
    /\ busy' = TRUE
    /\ Go(a, "start")
    /\ UNCHANGED <<input, cons_lock, uart_tx_lock, tx, rhr, irq, got, killed>>

-----------------------------------------------------------------------------
\* devintr(): plic_claim().
devintr ==
    /\ irq /\ pc[Intr] = "idle"
    /\ irq' = FALSE
    /\ Go(Intr, "getc")
    /\ UNCHANGED <<input, cons_lock, uart_tx_lock, tx, busy, rhr, got, killed>>

\* consoleintr(c): what c does to the input, and whether it is echoed.  Nobody
\* sees the input before the echo is over and cons.lock is released.
Wake == [a \in Actors |-> IF pc[a] = "asleep" THEN "read" ELSE pc[a]]
Typed(c) ==
    LET e1 == Plus(e, 1)
        whole == c \in {"nl", "eof"} \/ (e1 - r) % WRAP = INPUT_BUF_SIZE
    IN  /\ buf' = [buf EXCEPT ![At(e)] = c]
        /\ e' = e1
        /\ w' = IF whole THEN e1 ELSE w
        /\ pc' = [(IF whole THEN Wake ELSE pc) EXCEPT ![Intr] = "echo"]
Erase(k) ==
    /\ e' = Plus(e, -k)
    /\ buf' = Clear({Plus(e, -j) : j \in 1 .. k})
    /\ Go(Intr, IF k = 0 THEN "getc" ELSE "echo")
    /\ UNCHANGED w
\* Mutant: ^U stops at r instead of w.
KillLength_read == CHOOSE k \in 0 .. (e - r) % WRAP :
    /\ \A j \in 1 .. k : buf[At(Plus(e, -j))] # "nl"
    /\ k = (e - r) % WRAP \/ buf[At(Plus(e, -(k + 1)))] = "nl"

\* ^U goes back to the last newline; all of the line is after w.
KillLength == CHOOSE k \in 0 .. (e - w) % WRAP :
    /\ \A j \in 1 .. k : buf[At(Plus(e, -j))] # "nl"
    /\ k = (e - w) % WRAP \/ buf[At(Plus(e, -(k + 1)))] = "nl"

consoleintr(c) ==
    CASE c \in Stored /\ (e - r) % WRAP < INPUT_BUF_SIZE -> Typed(c)
      [] c = "bs" -> Erase(IF e = w THEN 0 ELSE 1)
      [] c = "kill" -> Erase(KillLength)
      [] OTHER -> Erase(0)

\* uartintr(): uartgetc(), and consoleintr() up to the echo.
uartintr ==
    /\ pc[Intr] = "getc"
    /\ \/ /\ rhr # NoKey /\ cons_lock = Nobody
          /\ consoleintr(rhr)
          /\ cons_lock' = IF pc'[Intr] = "echo" THEN Intr ELSE Nobody
          /\ rhr' = NoKey
          /\ UNCHANGED uart_tx_lock
       \/ /\ rhr = NoKey /\ uart_tx_lock = Nobody
          /\ uart_tx_lock' = Intr
          /\ Go(Intr, "start")
          /\ UNCHANGED <<buf, w, e, cons_lock, rhr>>
    /\ UNCHANGED <<r, tx, busy, irq, got, killed>>

\* uartputc_sync(): spins until the register is empty, then stores.
uartputc_sync ==
    /\ \/ /\ pc[Intr] = "echo" /\ ~busy
          /\ Go(Intr, "echo_thr")
          /\ UNCHANGED <<busy, cons_lock>>
       \/ /\ pc[Intr] = "echo_thr"
          /\ busy' = TRUE
          /\ Go(Intr, "getc")
          /\ cons_lock' = Nobody
    /\ UNCHANGED <<input, uart_tx_lock, tx, rhr, irq, got, killed>>

-----------------------------------------------------------------------------
\* The UART: a character has been sent; a character comes in.
sent ==
    /\ busy /\ busy' = FALSE /\ irq' = TRUE
    /\ UNCHANGED <<input, cons_lock, uart_tx_lock, tx, rhr, pc, got, killed>>
key ==
    /\ rhr = NoKey /\ irq' = TRUE
    /\ \E c \in Keys : rhr' = c
    /\ UNCHANGED <<input, cons_lock, uart_tx_lock, tx, busy, pc, got, killed>>

Next ==
    \/ \E p \in Readers : read(p) \/ consoleread(p) \/ kill(p)
    \/ \E p \in Writers : consolewrite(p) \/ uartputc(p)
    \/ \E a \in Writers \cup {Intr} : uartstart(a) \/ uartstart_thr(a)
    \/ devintr \/ uartintr \/ uartputc_sync \/ sent \/ key

Spec == Init /\ [][Next]_vars

-----------------------------------------------------------------------------
\* A process asleep in consoleread() sleeps on an empty console: whatever
\* completes a line, a newline, ^D or a full buffer, wakes it, and so does a
\* kill (console.c: consoleread, consoleintr).
ReaderHasNothing == \A p \in Readers :
    pc[p] = "asleep" => r = w /\ p \notin killed

\* Somebody will empty the transmit buffer: when a process sleeps in uartputc()
\* or a character waits in the buffer, the register is full, so that the UART
\* will interrupt, or an interrupt is pending, or the handler or a writer has
\* yet to look at the register.  So it stays however the echo, which goes past
\* the buffer, takes turns with uartstart() (uart.c: uartputc, uartstart).
OutputHasInterrupt ==
    tx > 0 \/ (\E p \in Writers : pc[p] = "tx_asleep") =>
        \/ busy \/ irq \/ pc[Intr] # "idle"
        \/ \E p \in Writers : pc[p] \in {"start", "thr"}

\* The characters from index i up to index j.
Ring(i, j) == [k \in 1 .. (j - i) % WRAP |-> buf[At(Plus(i, k - 1))]]
Editor == INSTANCE LineEditor WITH Size <- INPUT_BUF_SIZE,
              complete <- Ring(r, w), edited <- Ring(w, e)
\* The ring buffer with its three wrapping indices is a line editor: nothing
\* that was completed is erased, overwritten or read twice, and erasing never
\* reaches into a completed line (console.c: consoleread, consoleintr).
ImplementsLineEditor == Editor!Spec
=============================================================================
