----------------------------- MODULE EventTools -----------------------------
(***************************************************************************)
(* The event log and its signals (harness/src/tools/event.ts) as pure       *)
(* functions of the scenario's events.yml and signals.yml, the rows of the  *)
(* log and the arguments of one call.                                       *)
(*                                                                          *)
(*   schema  [type, time, metadata, keys], the names of columns; metadata is *)
(*           Null when there is none, keys is <<[name, column, kind]>>        *)
(*   signal  <<[name, kind, required, default, max, days]>>, its parameters   *)
(*   value   Null or [type, number], the JSON type and what Number() makes of *)
(*           it: an integer, or Null for anything else                       *)
(* What a function returns is <<result>>, and <<>> when it refuses.           *)
(***************************************************************************)
EXTENDS Integers, Sequences, SequencesExt

CONSTANT Null

Names(declared) == {declared[i].name : i \in DOMAIN declared}

Supplied(args, name) == name \in DOMAIN args /\ args[name] # Null

AsInteger(v) ==
    IF v.type \in {"number", "string"} /\ v.number # Null THEN <<v.number>> ELSE <<>>

AsString(v) == IF v.type = "string" THEN <<v>> ELSE <<>>

-----------------------------------------------------------------------------
(* ingest_event *)

CoerceCorrelation(key, v) ==
    CASE key.kind = "int" -> AsInteger(v)
      [] key.kind = "string" -> AsString(v)
      [] OTHER -> <<>>

CorrelationOf(key, args) ==
    IF Supplied(args, key.name) THEN CoerceCorrelation(key, args[key.name]) ELSE <<Null>>

\* bindCorrelations: an unknown key is refused even when it is null.
BindCorrelations(schema, args) ==
    LET bound == [i \in DOMAIN schema.keys |-> CorrelationOf(schema.keys[i], args)]
    IN IF DOMAIN args \subseteq Names(schema.keys) /\ \A i \in DOMAIN bound : bound[i] # <<>>
       THEN <<[i \in DOMAIN bound |-> bound[i][1]]>>
       ELSE <<>>

\* The column list of the INSERT.
Columns(schema) ==
    <<schema.type>> \o [i \in DOMAIN schema.keys |-> schema.keys[i].column]
        \o <<schema.time>> \o (IF schema.metadata = Null THEN <<>> ELSE <<schema.metadata>>)

\* Its placeholders; 0 is NOW(), which takes none.
Placeholders(schema) ==
    LET n == Len(schema.keys)
    IN [i \in 1 .. n + 1 |-> i] \o <<0>>
           \o (IF schema.metadata = Null THEN <<>> ELSE <<n + 2>>)

\* The row PostgreSQL makes of the statement and its values.
RowOf(schema, values, now) ==
    [column \in ToSet(Columns(schema)) |->
        LET at == CHOOSE i \in DOMAIN Columns(schema) : Columns(schema)[i] = column
            holder == Placeholders(schema)[at]
        IN IF holder = 0 THEN now ELSE values[holder]]

\* ingest_event: the log it leaves.
Ingest(schema, log, type, args, metadata, now) ==
    LET bound == BindCorrelations(schema, args)
        last == IF schema.metadata = Null THEN <<>> ELSE <<metadata>>
    IN IF bound = <<>> THEN <<>>
       ELSE <<Append(log, RowOf(schema, <<type>> \o bound[1] \o last, now))>>

-----------------------------------------------------------------------------
(* get_case_timeline *)

\* Math.round of a number of seconds, in minutes.
Minutes(seconds) == (seconds + 30) \div 60

\* The events of the case in the order of time, the oldest limit of them.
CaseEvents(schema, log, key, id, limit) ==
    LET ofCase == SelectSeq(log, LAMBDA row : row[key.column] = id)
        sorted == SortSeq(ofCase, LAMBDA a, b : a[schema.time] < b[schema.time])
    IN SubSeq(sorted, 1, IF Len(sorted) < limit THEN Len(sorted) ELSE limit)

Timeline(schema, log, name, id, limit) ==
    LET at == SelectInSeq(schema.keys, LAMBDA k : k.name = name)
        coerced == IF at = 0 THEN <<>> ELSE CoerceCorrelation(schema.keys[at], id)
        events == CaseEvents(schema, log, schema.keys[at], coerced[1], limit)
        Since(i, j) == Minutes(events[j][schema.time] - events[i][schema.time])
    IN IF coerced = <<>> THEN <<>>
       ELSE <<[events |-> events,
               since_previous |-> [i \in DOMAIN events |->
                                      IF i = 1 THEN Null ELSE Since(i - 1, i)],
               total |-> IF Len(events) > 1 THEN Since(1, Len(events)) ELSE 0]>>

-----------------------------------------------------------------------------
(* get_process_signals *)

\* coerceParam; days is as_interval_days.
CoerceParam(p, v) ==
    LET n == AsInteger(v)
    IN CASE p.kind = "int" ->
              IF n = <<>> \/ (p.max # Null /\ n # <<>> /\ n[1] > p.max) THEN <<>>
              ELSE <<[days |-> p.days, number |-> n[1]]>>
         [] p.kind = "string" -> AsString(v)
         [] OTHER -> <<>>

ParamOf(p, args) ==
    IF Supplied(args, p.name) THEN CoerceParam(p, args[p.name])
    ELSE IF p.default # Null THEN CoerceParam(p, p.default)
    ELSE IF p.required THEN <<>>
    ELSE <<Null>>

\* bindSignalParams: the values in the order of the declaration.
BindSignalParams(params, args) ==
    LET bound == [i \in DOMAIN params |-> ParamOf(params[i], args)]
    IN IF \A i \in DOMAIN bound : bound[i] # <<>>
       THEN <<[i \in DOMAIN bound |-> bound[i][1]]>>
       ELSE <<>>

\* The arguments the tool lets through: the name of the signal and a number.
SignalArgs(name, range) ==
    [arg \in {"signal_type", "time_range_days"} |->
        IF arg = "signal_type" THEN name ELSE range]

\* What it reports as the parameters: before they are coerced.
ReportedParams(params, args) ==
    [i \in DOMAIN params |->
        IF Supplied(args, params[i].name) THEN args[params[i].name] ELSE params[i].default]

-----------------------------------------------------------------------------
(***************************************************************************)
(* Facts                                                                    *)
(***************************************************************************)

\* The log is append-only, and each column of the new row holds what was given for
\* it, although the time takes no placeholder and absent keys are stored as NULL.
RowIsAsGiven(schema, log, type, args, metadata, now) ==
    LET left == Ingest(schema, log, type, args, metadata, now)
        row == Last(left[1])
    IN left # <<>> =>
          /\ Front(left[1]) = log
          /\ row[schema.type] = type /\ row[schema.time] = now
          /\ schema.metadata # Null => row[schema.metadata] = metadata
          /\ \A i \in DOMAIN schema.keys :
                LET key == schema.keys[i]
                IN row[key.column] = IF ~Supplied(args, key.name) THEN Null
                                     ELSE CoerceCorrelation(key, args[key.name])[1]

\* Whatever is accepted as the value of a key when an event is stored finds the
\* event again as the id of a case, and an event without the key is in no case.
CaseFindsItsEvents(schema, type, args, id, now) ==
    LET left == Ingest(schema, <<>>, type, args, Null, now)
        Of(key) == Timeline(schema, left[1], key.name, id, 1)
    IN left # <<>> =>
          \A key \in ToSet(schema.keys) :
             /\ Supplied(args, key.name) /\ args[key.name] = id =>
                   Of(key) # <<>> /\ Of(key)[1].events = left[1]
             /\ ~Supplied(args, key.name) /\ Of(key) # <<>> => Of(key)[1].events = <<>>

\* Its minutes never run backwards and add up to the total, but for the half minute
\* each of them is rounded by.
TimelineAddsUp(timeline) ==
    LET steps == Tail(timeline.since_previous)
        sum == FoldLeft(LAMBDA a, b : a + b, 0, steps)
    IN Len(timeline.events) > 1 =>
          /\ \A i \in DOMAIN steps : steps[i] >= 0
          /\ 2 * (sum - timeline.total) <= Len(steps) + 1
          /\ 2 * (timeline.total - sum) <= Len(steps) + 1

\* No bound integer exceeds the maximum of its parameter, the default included, and
\* the template gets a value for every placeholder.
BoundedParams(params, args) ==
    LET bound == BindSignalParams(params, args)
    IN bound # <<>> =>
          /\ Len(bound[1]) = Len(params)
          /\ \A i \in DOMAIN params :
                params[i].kind = "int" /\ params[i].max # Null /\ bound[1][i] # Null =>
                    bound[1][i].number <= params[i].max

\* A signal is refused for what the caller cannot give: a required parameter of
\* another name than the tool's two needs a default that passes.
OnlyNamedParams(params, name, range) ==
    BindSignalParams(params, SignalArgs(name, range)) # <<>> =>
        \A p \in ToSet(params) :
            p.required /\ p.name \notin {"signal_type", "time_range_days"} =>
                p.default # Null /\ CoerceParam(p, p.default) # <<>>
=============================================================================
