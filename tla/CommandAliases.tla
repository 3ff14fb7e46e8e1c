---------------------------- MODULE CommandAliases ----------------------------
(*****************************************************************************)
(* Aliases of commands: the files they are read from, the alias command that *)
(* writes them, and their resolution in the arguments of a command           *)
(* (dnf/cli/aliases.py, dnf/cli/commands/alias.py).                          *)
(*****************************************************************************)
EXTENDS Naturals, Sequences, SequencesExt, FiniteSets

CONSTANTS
  Name,         \* words an alias may be defined for
  Option,       \* words that begin with -
  Escaped,      \* words that begin with a backslash
  Bare,         \* what is left of them without it
  Other,        \* other words: commands, and their arguments
  Values,       \* what an alias may stand for; an empty value is ignored when read
  DropIns,      \* the files in aliases.d to look at, in alphabetical order
  Lines,        \* command lines to look at
  MaxChanges,   \* bound: alias commands
  MaxSteps      \* bound: replacements the documented rule is followed for

VARIABLES
  dropins,      \* the files of packages: is each enabled, and its aliases
  user,         \* USER.conf, likewise
  enabled,      \* the option `enabled' of ALIASES.conf
  changes

vars == <<dropins, user, enabled, changes>>

Word == Name \cup Option \cup Escaped \cup Other
File == [enabled : BOOLEAN, aliases : UNION {[S -> Values] : S \in SUBSET Name}]

Init ==
  /\ dropins \in DropIns
  /\ user = [enabled |-> TRUE, aliases |-> [n \in {} |-> <<>>]]
  /\ enabled \in BOOLEAN
  /\ changes = 0

\* dict.update
Updated(t, u) == [n \in DOMAIN t \cup DOMAIN u |-> IF n \in DOMAIN u THEN u[n] ELSE t[n]]

\* Aliases._load_aliases: later files override earlier ones, USER.conf all.
LoadAliases ==
  FoldSeq(LAMBDA file, t : IF file.enabled THEN Updated(t, file.aliases) ELSE t,
          [n \in {} |-> <<>>], Append(dropins, user))

------------------------------------------------------------------------------
(* Aliases._resolve: the stack has the aliases that are being replaced, the *)
(* prefix the options found on the way.                                     *)

\* The number of options args begins with.
Options(args) ==
  LET words == {i \in 1..Len(args) : args[i] \notin Option} IN
  IF words = {} THEN Len(args) ELSE (CHOOSE i \in words : \A j \in words : i <= j) - 1

\* Defect: an alias that has been replaced by options stays on the stack.
NeverPopped(stack) == stack

Popped(stack) == IF stack = <<>> THEN stack ELSE Front(stack)

Subresolve(t) ==
  LET resolved[args \in Seq(Word), stack \in Seq(Name), prefix \in Seq(Word)] ==
        LET n == Options(args)
            suffix == SubSeq(args, n + 1, Len(args))
            found == prefix \o SubSeq(args, 1, n)
            done(words, left) == [loop |-> FALSE, words |-> words, stack |-> left, prefix |-> found]
        IN IF suffix = <<>> THEN done(suffix, Popped(stack))
           ELSE IF Head(suffix) \notin DOMAIN t
           THEN IF Head(suffix) \in Escaped /\ stack # <<>>
                THEN done(<<Bare[Head(suffix)]>> \o Tail(suffix), Popped(stack))
                ELSE done(suffix, Popped(stack))
           ELSE IF Head(suffix) \in ToSet(stack)
           THEN [done(suffix, stack) EXCEPT !.loop = TRUE]
           ELSE LET r == resolved[t[Head(suffix)], Append(stack, Head(suffix)), found] IN
                IF r.loop THEN r
                ELSE IF r.words # <<>> THEN [r EXCEPT !.words = @ \o Tail(suffix)]
                ELSE resolved[Tail(suffix), r.stack, r.prefix]
  IN resolved

\* Aliases.resolve, from Cli.configure: with an infinite recursion the arguments stay as they are.
Resolve(args) ==
  LET r == Subresolve(LoadAliases)[args, <<>>, <<>>] IN
  IF ~enabled \/ r.loop THEN args ELSE r.prefix \o r.words

------------------------------------------------------------------------------
(* The alias command.  Other commands only read the files.                 *)

Alters == changes < MaxChanges /\ changes' = changes + 1 /\ UNCHANGED dropins

\* `alias add', AliasCommand.add_aliases
Add ==
  /\ Alters
  /\ \E n \in Name, v \in Values :
       user' = [user EXCEPT !.aliases = Updated(@, [m \in {n} |-> v])]
  /\ UNCHANGED enabled

\* `alias delete', AliasCommand.remove_aliases: only what is in USER.conf.
Delete ==
  /\ Alters
  /\ \E n \in DOMAIN user.aliases :
       user' = [user EXCEPT !.aliases = [m \in DOMAIN @ \ {n} |-> @[m]]]
  /\ UNCHANGED enabled

\* `alias --enable-resolving' and `--disable-resolving', which write ALIASES.conf.
UpdateConfigFromOptions ==
  /\ Alters
  /\ enabled' = ~enabled
  /\ UNCHANGED user

Next == Add \/ Delete \/ UpdateConfigFromOptions

Spec == Init /\ [][Next]_vars

------------------------------------------------------------------------------
(* What command_ref.rst says of the processing of aliases, for a line of which *)
(* the last `own' words are the user's.                                        *)

Rewritten(line, t) ==
  LET by[opts \in Seq(Word), args \in Seq(Word), own \in Nat, steps \in Nat] ==
        IF args = <<>> THEN opts
        ELSE IF Head(args) \in Option THEN by[Append(opts, Head(args)), Tail(args), own, steps]
        ELSE IF Head(args) \in Escaped /\ Len(args) > own THEN opts \o <<Bare[Head(args)]>> \o Tail(args)
        ELSE IF Head(args) \notin DOMAIN t THEN opts \o args
        ELSE IF steps = 0 THEN line
        ELSE by[opts, t[Head(args)] \o Tail(args), IF Len(args) > own THEN own ELSE own - 1, steps - 1]
  IN by[<<>>, line, Len(line), MaxSteps]

\* Every variable has the type the code gives it.
TypeOK ==
  /\ dropins \in Seq(File) /\ user \in File /\ enabled \in BOOLEAN
  /\ changes \in 0..MaxChanges

\* "It is then replaced by its value and the resulting sequence is again searched
\* for aliases. The alias processing stops when the first found command is not a
\* name of any alias. In case the processing would result in an infinite recursion,
\* the original arguments are used instead." (command_ref.rst; aliases.py:142): the
\* recursion with its stack does what replacing the first command step by step
\* does, for aliases that stand for options, for each other or for themselves.
ResolvesAsDocumented ==
  \A args \in Lines :
    Resolve(args) =
      IF enabled THEN Rewritten(args, LoadAliases) ELSE args
==============================================================================
