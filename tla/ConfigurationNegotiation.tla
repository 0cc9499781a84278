---------------------- MODULE ConfigurationNegotiation ----------------------
(* The negotiation of the configuration of some dependencies with one of their
   dependents (negotiate_configuration, and the evaluation of its prefer and
   accept, or require, clauses by its skeleton).

   A configuration maps the variables that a dependent has set to
   [value, dependent, confirmed, alternative]; the others have the value of the
   user or the default. A clause is [require, when, set, accept]: "set" is what
   the dependent sets, "when" the values the dependencies' variables must have for
   that and "accept" those it accepts. Require clauses have no conditions. *)
EXTENDS ConfigurationClusters

(* The configuration variables: the package each belongs to, the default, and
   those that the user has set. *)
Owned(w, ds) == {v \in DOMAIN w.owner : Contains(ds, w.owner[v])}

ValueIn(w, config, v) ==
    IF v \in DOMAIN w.user THEN w.user[v]
    ELSE IF v \in DOMAIN config THEN config[v].value ELSE w.default[v]

Holds(w, config, cond) == \A v \in DOMAIN cond : ValueIn(w, config, v) = cond[v]

Only(f, s) == [k \in DOMAIN f \cap s |-> f[k]]

(* The values of this dependent are unset first, so that it can change its mind;
   those it overwrites with the same value remain as they are. *)
Unset(w, config, p, deps) ==
    Only(config, {v \in DOMAIN config :
                    v \in Owned(w, deps) => config[v].dependent # p})

(* The configuration with the values of "set" set by p. Those that are the same
   remain another's; what the user has set is not overridden. *)
Adopted(w, config, p, set, alternative) ==
    LET new == {v \in DOMAIN set \ DOMAIN w.user :
                  v \in DOMAIN config => config[v].value # set[v]}
    IN  [v \in new |-> [value |-> set[v], dependent |-> p,
                        confirmed |-> TRUE, alternative |-> alternative]]
        @@ config

(* prefer and accept: what is preferred is set and then found acceptable or
   not. *)
Preferred(w, config, p, clause, alternative) ==
    IF Holds(w, config, clause.when)
    THEN Adopted(w, config, p, clause.set, alternative) ELSE config

PreferAccepts(w, config, clause) ==
    \A v \in DOMAIN clause.accept : ValueIn(w, config, v) \in clause.accept[v]

(* require: unacceptable is only what the user has set otherwise. *)
RequireAccepts(w, clause) ==
    \A v \in DOMAIN clause.set \cap DOMAIN w.user : w.user[v] = clause.set[v]

Required(w, config, p, clause, alternative) ==
    Adopted(w, config, p, clause.set, alternative)

Evaluate(w, config, p, clause, alternative) ==
    IF clause.require THEN Required(w, config, p, clause, alternative)
    ELSE Preferred(w, config, p, clause, alternative)

Accepts(w, config, clause) ==
    IF clause.require THEN RequireAccepts(w, clause)
    ELSE PreferAccepts(w, config, clause)

(* A configuration as it is recorded in the history of changes. *)
Entry(w, config, deps) ==
    [v \in DOMAIN config \cap Owned(w, deps) |->
       [value |-> config[v].value, dependent |-> config[v].dependent]]

(* The variables one dependent has set and another now has set differently. *)
Overridden(old, new) ==
    {v \in DOMAIN old \cap DOMAIN new :
       old[v].value # new[v].value /\ old[v].dependent # new[v].dependent}

\* With a fault: a value that nobody had set is not a change.
SameKnown(old, new) ==
    \A v \in DOMAIN old : v \in DOMAIN new /\ old[v].value = new[v].value
SameValues(old, new) ==
    [v \in DOMAIN old |-> old[v].value] = [v \in DOMAIN new |-> new[v].value]

(* The change has happened twice before, and the changes since the last time
   are those between the two. *)
Repeats(history, change) ==
    \E k \in DOMAIN history :
       LET first == 2 * k - 1 - Len(history)
       IN  /\ first >= 1
           /\ history[k] = change /\ history[first] = change
           /\ \A t \in 1..(Len(history) - k) : history[first + t] = history[k + t]

(* One of the dependents overridden has another alternative: it is its turn to
   give in. *)
OtherGivesIn(config, over) == \E v \in over : config[v].alternative

Refused(c, alternative) ==
    [how |-> IF alternative THEN "unacceptable" ELSE "failed", cluster |-> c]

(* The outcome for cluster c and dependent p with its clause about deps: the
   cluster is the same, it has changed, the alternative is unacceptable (there
   is another one), or there is no acceptable configuration. *)
Negotiate(w, c, p, clause, deps, alternative) ==
    LET config == Evaluate(w, Unset(w, c.config, p, deps), p, clause, alternative)
        old    == Entry(w, c.config, deps)
        new    == Entry(w, config, deps)
        over   == Overridden(old, new)
        next(h) == [c EXCEPT !.config = config, !.history = h]
    IN  CASE ~Accepts(w, config, clause) -> Refused(c, alternative)
          [] SameValues(old, new) -> [how |-> "same", cluster |-> next(c.history)]
          [] over = {} -> [how |-> "changed", cluster |-> next(c.history)]
          [] /\ Repeats(c.history, <<old, new>>)
             /\ alternative \/ ~OtherGivesIn(c.config, over) ->
               Refused(c, alternative)
          [] OTHER -> [how |-> "changed",
                       cluster |-> next(Append(c.history, <<old, new>>))]
=============================================================================
