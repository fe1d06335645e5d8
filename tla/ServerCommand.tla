---------------------------- MODULE ServerCommand ----------------------------
(* The command line of the chat server (backend/src/cli.ts): what its arguments *)
(* ask for, which secret signs the sessions, and what is done in which order.   *)
(* An argument is the number of dashes it begins with and the rest of it.       *)
EXTENDS Naturals, Sequences

Commands == {"migrate", "serve"}

Put(options, key, value) ==
    [k \in DOMAIN options \cup {key} |-> IF k = key THEN value ELSE options[k]]

IsHelp(arg) == arg \in {[dashes |-> 1, text |-> "h"], [dashes |-> 2, text |-> "help"]}

\* An option takes what comes after it for its value, unless that is empty or
\* begins with a dash.
TakesNext(rest) == rest # <<>> /\ Head(rest).dashes = 0 /\ Head(rest).text # ""

NoOptions == [key \in {} |-> ""]

\* parseArgs
RECURSIVE ParseFrom(_, _, _)
ParseFrom(args, command, options) ==
    IF args = <<>> THEN [command |-> command, options |-> options]
    ELSE LET arg == Head(args)
             rest == Tail(args)
         IN CASE IsHelp(arg) -> ParseFrom(rest, command, Put(options, "help", "true"))
              [] ~IsHelp(arg) /\ arg.dashes = 2 /\ TakesNext(rest) ->
                    ParseFrom(Tail(rest), command, Put(options, arg.text, Head(rest).text))
              [] ~IsHelp(arg) /\ arg.dashes = 2 /\ ~TakesNext(rest) ->
                    ParseFrom(rest, command, Put(options, arg.text, "true"))
              [] arg.dashes = 0 /\ command = "serve" /\ arg.text \in Commands ->
                    ParseFrom(rest, arg.text, options)
              [] OTHER -> ParseFrom(rest, command, options)

ParseArgs(args) == ParseFrom(args, "serve", NoOptions)

\* ensureAuthSecret: env and file are secrets or "", which is no secret; a file
\* that is not there is "" too.
EnsureAuthSecret(env, file, fresh, readable, writable) ==
    CASE env # "" -> [secret |-> env, file |-> file]
      [] env = "" /\ file # "" /\ readable -> [secret |-> file, file |-> file]
      [] OTHER -> [secret |-> fresh, file |-> IF writable THEN fresh ELSE file]

\* main, runServe and runMigrateCommand: what was done, and how the process ended
\* ("up" is a process that serves).
Main(args, migrates, listens) ==
    LET parsed == ParseArgs(args)
        ends(done, exit) == [done |-> done, exit |-> exit]
    IN CASE "help" \in DOMAIN parsed.options -> ends(<<"help">>, "0")
         [] "help" \notin DOMAIN parsed.options /\ ~migrates ->
               ends(<<"secret", "migrate">>, "1")
         [] "help" \notin DOMAIN parsed.options /\ migrates /\ parsed.command = "migrate" ->
               ends(<<"secret", "migrate">>, "0")
         [] OTHER -> ends(<<"secret", "migrate", "listen">>, IF listens THEN "up" ELSE "1")

-----------------------------------------------------------------------------
(* Facts *)

\* Whatever is on the command line, the server listens only after the database was
\* migrated under a secret, and a request for help does nothing else.
ServesMigrated(args, migrates, listens) ==
    LET run == Main(args, migrates, listens)
    IN /\ run.exit = "up" => migrates /\ run.done = <<"secret", "migrate", "listen">>
       /\ (\E i \in DOMAIN args : IsHelp(args[i])) => run.done = <<"help">> /\ run.exit = "0"

\* Nothing but the word "migrate" keeps the server from being started: a word that
\* is no command is passed over, so is "serve" behind "migrate", and a word behind
\* an option is its value.
MigrateIsAsked(args) ==
    ParseArgs(args).command = "migrate" <=>
        \E i \in DOMAIN args :
            /\ args[i] = [dashes |-> 0, text |-> "migrate"]
            /\ i > 1 => args[i - 1].dashes # 2 \/ IsHelp(args[i - 1])

\* The starts of one server, each with a secret of its own in hand.
RECURSIVE SecretsOf(_, _)
SecretsOf(starts, file) ==
    IF starts = <<>> THEN <<>>
    ELSE LET s == Head(starts)
             start == EnsureAuthSecret(s.env, file, s.fresh, s.readable, s.writable)
         IN <<start.secret>> \o SecretsOf(Tail(starts), start.file)

\* Sessions survive a restart: a start goes by the secret of the one before it,
\* unless one of the two has its own, that one could not save it, or this one
\* cannot read it.
SecretIsKept(starts, file) ==
    LET secrets == SecretsOf(starts, file)
    IN \A i \in 2 .. Len(starts) :
          (/\ starts[i - 1].env = "" /\ starts[i].env = ""
           /\ starts[i].readable
           /\ starts[i - 1].writable) => secrets[i] = secrets[i - 1]
=============================================================================
