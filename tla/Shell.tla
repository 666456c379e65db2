-------------------------------- MODULE Shell --------------------------------
(***************************************************************************)
(* The shell at work (user/sh.c: main, runcmd, fork1) under init           *)
(* (user/init.c): the processes it forks, their file descriptors and the   *)
(* pipes between them.  The system calls are the atomic steps the shell    *)
(* sees; their insides are the modules Proc and Pipe.  A program reads its *)
(* standard input to the end or not, writes its standard output or not,    *)
(* and exits.  What passes through a pipe is only counted.                 *)
(***************************************************************************)
EXTENDS ShellParser

CONSTANTS
    Procs,       \* the slots of the process table, that of init excepted
    Init_,       \* init
    Pipes,       \* pipes that can exist at once
    NOFILE,      \* descriptors of a process
    PIPESIZE,    \* bytes a pipe holds
    Sessions     \* sets of lines: those of one are typed, in any order

VARIABLES
    proc,        \* the process table
    pipe,        \* bytes in each pipe
    typed,       \* the lines yet to be typed
    shell,       \* init's pid: the slot of the shell, Init_ before the fork
    stopped      \* init has exited, and the kernel has panicked

vars == <<proc, pipe, typed, shell, stopped>>

None == [end |-> "none", n |-> 0]
Tty == [end |-> "tty", n |-> 0]
File == [end |-> "file", n |-> 0]
Rd(k) == [end |-> "r", n |-> k]
Wr(k) == [end |-> "w", n |-> k]

FD == 0..NOFILE-1

\* A process: p is its local array of that name, in and out are what its
\* standard input and output ought to be, and left says that nobody is to
\* wait for it: it was started with &, or its parent gave up.
Free == [pc |-> "free", cmd |-> execcmd(<<>>), parent |-> Init_,
         fd |-> [i \in FD |-> None], p |-> <<0, 0>>, in |-> Tty, out |-> Tty, left |-> FALSE]
Shell0 == [Free EXCEPT !.pc = "getcmd", !.fd = [i \in FD |-> IF i < 3 THEN Tty ELSE None]]

Init ==
    /\ proc = [x \in Procs |-> Free]
    /\ pipe = [k \in Pipes |-> 0]
    /\ typed \in Sessions
    /\ shell = Init_ /\ stopped = FALSE

-----------------------------------------------------------------------------
(* System calls.                                                           *)

Holders(e) == {x \in Procs : \E i \in FD : proc[x].fd[i] = e}
Used(k) == Holders(Rd(k)) \union Holders(Wr(k)) # {}
LowestFree(fd) == Min({i \in FD : fd[i] = None})
close(fd, i) == [fd EXCEPT ![i] = None]
dup(fd, i) == [fd EXCEPT ![LowestFree(fd)] = fd[i]]
open(fd) == [fd EXCEPT ![LowestFree(fd)] = File]

Children(x) == {c \in Procs : proc[c].parent = x /\ proc[c].pc # "free"}
Zombies(x) == {c \in Children(x) : proc[c].pc = "zombie"}

\* The processes after x has exited: init adopts its children.
Gone(table, x) ==
    [c \in Procs |->
        CASE c = x -> [Free EXCEPT !.pc = "zombie", !.parent = table[x].parent]
          [] c # x /\ table[c].parent = x -> [table[c] EXCEPT !.parent = Init_]
          [] OTHER -> table[c]]

\* A pipe nobody holds is freed with what is in it.
Pipes_(table) ==
    pipe' = [k \in Pipes |-> IF \E x \in Procs, i \in FD : table[x].fd[i] \in {Rd(k), Wr(k)}
                             THEN pipe[k] ELSE 0]

exit_of(table, x) == proc' = Gone(table, x) /\ Pipes_(proc')
exit(x) == exit_of(proc, x)

\* fork1(): the child c starts as given.  Without a free slot the process
\* gives up, and its children go on without it.
RECURSIVE Below(_)
Below(S) == LET more == UNION {Children(x) : x \in S} \ S
            IN  IF more = {} THEN S ELSE Below(S \union more)
GiveUp(x) ==
    exit_of([c \in Procs |-> [proc[c] EXCEPT !.left = @ \/ c \in Below({x})]], x)

Slots == {c \in Procs : proc[c].pc = "free"}
fork1(x, parent, child) ==
    \/ /\ Slots # {}
       /\ proc' = [proc EXCEPT ![x] = parent, ![Min(Slots)] = [child EXCEPT !.parent = x]]
       /\ Pipes_(proc')
    \/ Slots = {} /\ GiveUp(x)

-----------------------------------------------------------------------------
(* init's main(): the shell, and again the shell when it has exited.       *)

\* fork(), and exec() of the shell in the child; without a free slot init exits,
\* and the kernel panics.
init_fork ==
    /\ shell = Init_
    /\ \/ /\ Slots # {}
          /\ proc' = [proc EXCEPT ![Min(Slots)] = Shell0]
          /\ shell' = Min(Slots)
          /\ UNCHANGED stopped
       \/ /\ Slots = {}
          /\ stopped' = TRUE
          /\ UNCHANGED <<proc, shell>>
    /\ UNCHANGED pipe

\* wait(): the shell, or a process whose parent has exited.
init_wait ==
    /\ shell # Init_
    /\ \E z \in Zombies(Init_) :
        /\ proc' = [proc EXCEPT ![z] = Free]
        /\ shell' = IF z = shell THEN Init_ ELSE shell
    /\ UNCHANGED <<pipe, stopped>>

-----------------------------------------------------------------------------
(* The shell's main()                                                      *)

Command(parsed) == IF Bad(parsed) THEN execcmd(<<>>) ELSE parsed.cmd
Child(x, c) == [proc[x] EXCEPT !.pc = "run", !.cmd = c]

\* A line with a syntax error costs a fork and an exit(1); at the end of its
\* input the shell exits.
main(x) ==
    /\ proc[x].pc = "getcmd"
    /\ \/ \E line \in typed :
            /\ fork1(x, [proc[x] EXCEPT !.pc = "wait"], Child(x, Command(parsecmd(line))))
            /\ typed' = typed \ {line}
       \/ exit(x) /\ UNCHANGED typed

\* Mutant: runcmd() waits for one of the two processes of a pipe.
After_one(x) == CASE proc[x].pc = "wait" -> "getcmd"
                  [] proc[x].pc = "list_wait" -> "run"
                  [] proc[x].pc \in {"pipe_wait1", "pipe_wait2"} -> "exit"

After(x) == CASE proc[x].pc = "wait" -> "getcmd"
              [] proc[x].pc = "list_wait" -> "run"
              [] proc[x].pc = "pipe_wait1" -> "pipe_wait2"
              [] proc[x].pc = "pipe_wait2" -> "exit"

Waiting == {"wait", "list_wait", "pipe_wait1", "pipe_wait2"}

\* wait(0): the shell never calls it without a child.
wait(x) ==
    /\ proc[x].pc \in Waiting
    /\ \E z \in Zombies(x) : proc' = [proc EXCEPT ![x].pc = After(x), ![z] = Free]
    /\ UNCHANGED pipe

-----------------------------------------------------------------------------
(* runcmd()                                                                *)

At(x, l) == proc[x].pc = l
Go(x, l) == [proc[x] EXCEPT !.pc = l]
Set(x, rec) == proc' = [proc EXCEPT ![x] = rec] /\ Pipes_(proc')
Cmd(x, type) == At(x, "run") /\ proc[x].cmd.type = type

\* exec() of an empty command or a missing program ends the process.
run_exec(x) ==
    /\ Cmd(x, "EXEC")
    /\ \/ proc[x].cmd.argv # <<>> /\ Set(x, [Go(x, "prog") EXCEPT !.cmd = Free.cmd])
       \/ exit(x)

\* close(rcmd->fd); open(rcmd->file): the kernel takes the lowest free one.
run_redir(x) ==
    LET c == proc[x].cmd
    IN  /\ Cmd(x, "REDIR")
        /\ \/ Set(x, [proc[x] EXCEPT !.cmd = c.cmd, !.fd = open(close(@, c.fd)),
                                     !.in = IF c.fd = 0 THEN File ELSE @,
                                     !.out = IF c.fd = 1 THEN File ELSE @])
           \/ exit(x)

run_list(x) ==
    /\ Cmd(x, "LIST")
    /\ fork1(x, [Go(x, "list_wait") EXCEPT !.cmd = @.right], Child(x, proc[x].cmd.left))

run_back(x) ==
    /\ Cmd(x, "BACK")
    /\ fork1(x, Go(x, "exit"), [Child(x, proc[x].cmd.cmd) EXCEPT !.left = TRUE])

\* pipe(p): two descriptors, or no pipe to be had.
run_pipe(x) ==
    LET fd0 == proc[x].fd
        k == Min({j \in Pipes : ~Used(j)})
        fd1 == [fd0 EXCEPT ![LowestFree(fd0)] = Rd(k)]
    IN  /\ Cmd(x, "PIPE")
        /\ IF (\A j \in Pipes : Used(j)) \/ Cardinality({i \in FD : fd0[i] = None}) < 2
           THEN exit(x)
           ELSE Set(x, [Go(x, "pipe_left") EXCEPT
                           !.fd = [fd1 EXCEPT ![LowestFree(fd1)] = Wr(k)],
                           !.p = <<LowestFree(fd0), LowestFree(fd1)>>])

\* Mutant: the child keeps the read end.
Plug_read(x, std, n) == close(dup(close(proc[x].fd, std), proc[x].p[n]), proc[x].p[2])

\* The child closes std, puts p[n] there and closes both ends.
Plug(x, std, n) == close(close(dup(close(proc[x].fd, std), proc[x].p[n]), proc[x].p[1]), proc[x].p[2])

pipe_left(x) ==
    /\ At(x, "pipe_left")
    /\ fork1(x, Go(x, "pipe_right"),
             [Child(x, proc[x].cmd.left) EXCEPT
                 !.fd = Plug(x, 1, 2), !.out = proc[x].fd[proc[x].p[2]], !.p = Free.p])

pipe_right(x) ==
    /\ At(x, "pipe_right")
    /\ fork1(x, Go(x, "pipe_close"),
             [Child(x, proc[x].cmd.right) EXCEPT
                 !.fd = Plug(x, 0, 1), !.in = proc[x].fd[proc[x].p[1]], !.p = Free.p])

\* Mutant: the parent keeps the write end.
pipe_close_read(x) ==
    /\ At(x, "pipe_close")
    /\ Set(x, [Go(x, "pipe_wait1") EXCEPT !.fd = close(@, proc[x].p[1]),
                                          !.cmd = Free.cmd, !.p = Free.p])

pipe_close(x) ==
    /\ At(x, "pipe_close")
    /\ Set(x, [Go(x, "pipe_wait1") EXCEPT !.fd = close(close(@, proc[x].p[1]), proc[x].p[2]),
                                          !.cmd = Free.cmd, !.p = Free.p])

finish(x) == At(x, "exit") /\ exit(x)

-----------------------------------------------------------------------------
(* A program.                                                              *)

\* Only the reads and writes of a pipe can block.
program(x) ==
    /\ At(x, "prog")
    /\ \/ proc[x].fd[0].end = "r" /\ Set(x, Go(x, "reading"))
       \/ proc[x].fd[1].end = "w" /\ Set(x, Go(x, "writing"))
       \/ exit(x)

\* read(0) waits for a byte or for the end of the file, where the program
\* exits.
read(x) ==
    LET k == proc[x].fd[0].n
    IN  /\ At(x, "reading")
        /\ \/ pipe[k] = 0 /\ Holders(Wr(k)) = {} /\ exit(x)
           \/ /\ pipe[k] > 0 /\ pipe' = [pipe EXCEPT ![k] = @ - 1]
              /\ proc' = [proc EXCEPT ![x].pc = "prog"]

\* write(1) waits for room, and fails when nobody can read.
write(x) ==
    LET k == proc[x].fd[1].n
    IN  /\ At(x, "writing")
        /\ \/ Holders(Rd(k)) = {} /\ exit(x)
           \/ /\ Holders(Rd(k)) # {} /\ pipe[k] < PIPESIZE
              /\ pipe' = [pipe EXCEPT ![k] = @ + 1]
              /\ proc' = [proc EXCEPT ![x].pc = "prog"]

\* What the shell and the processes it forks do.
step(x) ==
    \/ wait(x) \/ run_exec(x) \/ run_redir(x) \/ run_list(x) \/ run_back(x)
    \/ run_pipe(x) \/ pipe_left(x) \/ pipe_right(x) \/ pipe_close(x) \/ finish(x)
    \/ program(x) \/ read(x) \/ write(x)

\* panic() loops for ever.
panicked == stopped /\ UNCHANGED vars

Next ==
    \/ /\ ~stopped
       /\ \/ (init_fork \/ init_wait) /\ UNCHANGED typed
          \/ \E x \in Procs : main(x) /\ UNCHANGED <<shell, stopped>>
          \/ \E x \in Procs : step(x) /\ UNCHANGED <<shell, stopped, typed>>
    \/ panicked

Spec == Init /\ [][Next]_vars

-----------------------------------------------------------------------------

Programs == {x \in Procs : proc[x].pc \in {"prog", "reading", "writing"}}

\* A program starts with the standard input and output its place in the
\* command gives it and with no other descriptor: close() and dup() of
\* runcmd() find the lowest free descriptor to be the one they mean, through
\* any nesting of pipes, lists and redirections, and no end of a pipe leaks.
Wired ==
    \A x \in Programs :
      \A i \in FD : proc[x].fd[i] = CASE i = 0 -> proc[x].in
                                      [] i = 1 -> proc[x].out
                                      [] i = 2 -> Tty
                                      [] i > 2 -> None

\* The prompt comes back only when every process of the command has exited,
\* those started with & excepted (and those whose parent could not fork the
\* rest of the command).
PromptAfterCommand ==
    shell # Init_ /\ proc[shell].pc = "getcmd" =>
        \A x \in Procs \ {shell} : proc[x].pc \in {"free", "zombie"} \/ proc[x].left

Blocked(x) ==
    \/ proc[x].pc \in {"free", "zombie"}
    \/ proc[x].pc \in Waiting /\ Zombies(x) = {}
    \/ LET k == proc[x].fd[0].n
       IN  At(x, "reading") /\ pipe[k] = 0 /\ Holders(Wr(k)) # {}
    \/ LET k == proc[x].fd[1].n
       IN  At(x, "writing") /\ pipe[k] = PIPESIZE /\ Holders(Rd(k)) # {}

\* A command never hangs in the shell's own plumbing: a program that waits
\* for the end of its input, and the shell processes waiting for it, never
\* wait for each other because one of them kept an end of the pipe.
SomebodyRuns ==
    \/ stopped \/ shell = Init_ \/ Zombies(Init_) # {}
    \/ \E x \in Procs : ~Blocked(x)
=============================================================================
