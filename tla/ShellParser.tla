---------------------------- MODULE ShellParser ----------------------------
(***************************************************************************)
(* The parser of the shell (user/sh.c): from the characters of a line to a *)
(* tree of commands.  "a" stands for every character that is neither white *)
(* space nor a symbol, " " for all white space.  The functions take and    *)
(* return a record: the line, the position *ps, the token and word of the  *)
(* last gettoken(), what has been built, and err, set where the code calls *)
(* panic() and the process exits.                                          *)
(***************************************************************************)
EXTENDS Integers, Sequences, FiniteSets, FiniteSetsExt

CONSTANT MAXARGS  \* the size of argv, its final null included

whitespace == {" "}
symbols == {"<", "|", ">", "&", ";", "(", ")"}

execcmd(argv) == [type |-> "EXEC", argv |-> argv]
redircmd(c, r) == [type |-> "REDIR", cmd |-> c, file |-> r.file, mode |-> r.mode, fd |-> r.fd]
pipecmd(l, r) == [type |-> "PIPE", left |-> l, right |-> r]
listcmd(l, r) == [type |-> "LIST", left |-> l, right |-> r]
backcmd(c) == [type |-> "BACK", cmd |-> c]

-----------------------------------------------------------------------------

Start(line) == [line |-> line, i |-> 1, tok |-> "", word |-> <<>>, cmd |-> execcmd(<<>>),
                argv |-> <<>>, err |-> "none"]

Bad(s) == s.err # "none"
panic(s, why) == [s EXCEPT !.err = why]

\* The first position from i on that is the end or holds a character of cs.
Upto(line, i, cs) == Min({j \in i..Len(line) : line[j] \in cs} \union {Len(line) + 1})

Ordinary == {"a"}
SkipSpace(s) == [s EXCEPT !.i = Upto(s.line, s.i, Ordinary \union symbols)]

Char(s, i) == IF i > Len(s.line) THEN "end" ELSE s.line[i]

\* peek() skips the white space too, but every function that looks at the
\* line skips it itself.
peek(s, toks) == Char(s, SkipSpace(s).i) \in toks

Take(s, tok, to) == SkipSpace([s EXCEPT !.tok = tok, !.i = to, !.word = SubSeq(s.line, s.i, to - 1)])

Scan(s) ==
    LET c == Char(s, s.i)
    IN  CASE c = "end" -> Take(s, "end", s.i)
          [] c = ">" /\ Char(s, s.i + 1) = ">" -> Take(s, "+", s.i + 2)
          [] c = ">" /\ Char(s, s.i + 1) # ">" -> Take(s, ">", s.i + 1)
          [] c \in symbols \ {">"} -> Take(s, c, s.i + 1)
          [] c \in Ordinary -> Take(s, "a", Upto(s.line, s.i, whitespace \union symbols))

gettoken(s) == Scan(SkipSpace(s))

Redirection(tok, word) ==
    CASE tok = "<" -> [file |-> word, mode |-> "read", fd |-> 0]
      [] tok = ">" -> [file |-> word, mode |-> "trunc", fd |-> 1]
      [] tok = "+" -> [file |-> word, mode |-> "create", fd |-> 1]

RECURSIVE parseredirs(_)
\* The operator and the file name have been read.
Redirected(s, tok) ==
    IF s.tok # "a" THEN panic(s, "missing file")
    ELSE parseredirs([s EXCEPT !.cmd = redircmd(@, Redirection(tok, s.word))])
Operator(s) == Redirected(gettoken(s), s.tok)
parseredirs(s) == IF ~Bad(s) /\ peek(s, {"<", ">"}) THEN Operator(gettoken(s)) ELSE s

RECURSIVE parseline(_)
Close(s) ==
    IF Bad(s) THEN s
    ELSE IF ~peek(s, {")"}) THEN panic(s, "missing )")
    ELSE parseredirs(gettoken(s))
parseblock(s) == Close(parseline(gettoken(s)))

\* The words go to the command in the middle of its redirections.
RECURSIVE Store(_, _)
Store(c, argv) ==
    IF c.type = "EXEC" THEN execcmd(argv) ELSE [c EXCEPT !.cmd = Store(c.cmd, argv)]
Stored(s) == [s EXCEPT !.cmd = Store(@, s.argv)]

RECURSIVE words(_)
Word(s) ==
    CASE s.tok = "end" -> Stored(s)
      [] s.tok \notin {"end", "a"} -> panic(s, "syntax")
      [] s.tok = "a" /\ Len(s.argv) + 1 >= MAXARGS -> panic(s, "too many args")
      [] s.tok = "a" /\ Len(s.argv) + 1 < MAXARGS ->
            words(parseredirs([s EXCEPT !.argv = Append(@, s.word)]))
words(s) ==
    IF Bad(s) THEN s
    ELSE IF peek(s, {"|", ")", "&", ";"}) THEN Stored(s)
    ELSE Word(gettoken(s))

parseexec(s) ==
    IF peek(s, {"("}) THEN parseblock(s)
    ELSE words(parseredirs([s EXCEPT !.cmd = execcmd(<<>>), !.argv = <<>>]))

\* Mutant: the pipe runs the other way.
PipeRight_left(s, left) == [s EXCEPT !.cmd = pipecmd(@, left)]

RECURSIVE parsepipe(_)
PipeRight(s, left) == [s EXCEPT !.cmd = pipecmd(left, @)]
PipeRest(s) ==
    IF ~Bad(s) /\ peek(s, {"|"}) THEN PipeRight(parsepipe(gettoken(s)), s.cmd) ELSE s
parsepipe(s) == PipeRest(parseexec(s))

RECURSIVE Backs(_)
Backs(s) ==
    IF ~Bad(s) /\ peek(s, {"&"}) THEN Backs([gettoken(s) EXCEPT !.cmd = backcmd(@)]) ELSE s
ListRight(s, left) == [s EXCEPT !.cmd = listcmd(left, @)]
ListRest(s) ==
    IF ~Bad(s) /\ peek(s, {";"}) THEN ListRight(parseline(gettoken(s)), s.cmd) ELSE s
parseline(s) == ListRest(Backs(parsepipe(s)))

Leftovers(s) == IF ~Bad(s) /\ SkipSpace(s).i <= Len(s.line) THEN panic(s, "leftovers") ELSE s
parsecmd(line) == Leftovers(parseline(Start(line)))

-----------------------------------------------------------------------------
(* The reference: the text of a tree, with parentheses only where the      *)
(* grammar  line = pipe {&} [; line], pipe = simple [| pipe],              *)
(* simple = words with redirections, or (line) with redirections after it, *)
(* needs them.                                                             *)

RECURSIVE Joined(_)
Joined(ws) == IF ws = <<>> THEN <<>> ELSE <<" ">> \o Head(ws) \o Joined(Tail(ws))

Arrow(c) == CASE c.mode = "read" -> <<"<">>
              [] c.mode = "trunc" -> <<">">>
              [] c.mode = "create" -> <<">", ">">>

RECURSIVE Line(_), Back(_), Piped(_), Simple(_)
Line(c) == IF c.type = "LIST" THEN Back(c.left) \o <<";">> \o Line(c.right) ELSE Back(c)
Back(c) == IF c.type = "BACK" THEN Back(c.cmd) \o <<"&">> ELSE Piped(c)
Piped(c) == IF c.type = "PIPE" THEN Simple(c.left) \o <<"|">> \o Piped(c.right) ELSE Simple(c)
Simple(c) ==
    CASE c.type = "EXEC" -> Joined(c.argv)
      [] c.type = "REDIR" -> Simple(c.cmd) \o Arrow(c) \o c.file
      [] c.type \notin {"EXEC", "REDIR"} -> <<"(">> \o Line(c) \o <<")">>

\* parsecmd() reads the text of a command as that command: | binds tighter
\* than & and &, tighter than ;, redirections belong to the command or block
\* they follow, in their order, and no word is lost.
ReadBack(c) == parsecmd(Line(c)).err = "none" /\ parsecmd(Line(c)).cmd = c
=============================================================================
