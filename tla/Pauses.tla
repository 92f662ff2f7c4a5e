------------------------------- MODULE Pauses -------------------------------
(***************************************************************************)
(* Who answers a customer, the assistant or a person: the conversation     *)
(* state in the customers row (store/app/crm/escalations.py), the AI Mode  *)
(* of the lead in Kommo that mirrors it                                    *)
(* (store/app/integrations/kommo/state.py), the administrator's pauses and *)
(* activations (store/app/admin/customer_activation.py, settings.py,       *)
(* telegram_bot.py) and the sweep that ends expired automatic escalations  *)
(* (store/app/broadcast/scheduler.py).                                     *)
(*                                                                         *)
(* A reactivation holds the customer's row lock across its calls to Kommo; *)
(* every other statement on the row waits for it.  An administrator's      *)
(* request changes Kommo, reads it back, and changes the row last.         *)
(***************************************************************************)
EXTENDS Checkout

CONSTANTS Tasks, \* concurrent turns of the customer
          Sweep, \* the scheduler's pass, beside the tasks a reactivator
          NoOne

ASSUME PausesAssumption == Sweep \notin Tasks /\ NoOne \notin Tasks \cup {Sweep}

VARIABLES cust,    \* state, source and expiry in the customers row
          mode,    \* AI Mode of the lead; "none": delivery by Meta, no lead
          enabled, \* settings.ai_enabled
          react,   \* the reactivation that holds the row lock
          admin,   \* the administrator's request under way
          hold,    \* history: odd while a person's pause is in force
          people   \* bound: interventions of administrators and operators

pauseVars == <<cust, mode, enabled, react, admin, hold, people>>

Reactors == Tasks \cup {Sweep}
Cust == [state : {"active", "escalated", "blocked"},
         source : {"none", "automatic", "manual", "external"},
         expiry : {"none", "running", "due"}]
Modes == {"none", "empty", "active", "human", "paused"}
Requests == {"free", "pause", "pausing", "paused", "activate", "activating", "activated",
             "reset", "block", "save"}

Active == [state |-> "active", source |-> "none", expiry |-> "none"]
Automatic(expiry) == [state |-> "escalated", source |-> "automatic", expiry |-> expiry]
Paused(source) == [state |-> "escalated", source |-> source, expiry |-> "none"]
Idle == [by |-> NoOne, step |-> "off"]

Kommo == mode # "none"
Unlocked == react.by = NoOne
IsAutomatic == cust.state = "escalated" /\ cust.source = "automatic"
Expired(row) == row.state = "escalated" /\ row.source = "automatic" /\ row.expiry = "due"

PausesInit(provider) ==
    /\ cust = Active
    /\ mode = IF provider = "meta" THEN "none" ELSE "empty"
    /\ enabled = TRUE
    /\ react = Idle
    /\ admin = "free"
    /\ hold = 0

\* A statement on the customers row waits for the lock.  A pause by a person
\* is in force from here on; Lift ends it.
Held == hold % 2 = 1
Write(row) ==
    /\ Unlocked
    /\ cust' = row
    /\ hold' = IF ~Held /\ (row.state = "blocked" \/ row.source \in {"manual", "external"})
                 THEN hold + 1 ELSE hold

Lift(row) ==
    /\ Unlocked
    /\ cust' = row
    /\ hold' = IF Held THEN hold + 1 ELSE hold

-----------------------------------------------------------------------------
(* escalations.py                                                          *)

\* Mutant: overwrites the pauses of people.
EscalateAnyPause ==
    \E expiry \in {"none", "running"} :
      Write(IF cust.state # "blocked" THEN Automatic(expiry) ELSE cust)

\* escalate_customer_automatically; no expiry with a timeout of 0.
EscalateAutomatically ==
    \E expiry \in {"none", "running"} :
      Write(IF cust.state = "active" \/ IsAutomatic THEN Automatic(expiry) ELSE cust)

\* mark_external_escalation
MarkExternalEscalation ==
    Write(IF cust.state = "blocked" \/ IsAutomatic THEN cust ELSE Paused("external"))

\* Mutant: the mirror lifts every pause but a block.
MarkExternalActiveAny == Write(IF cust.state # "blocked" THEN Active ELSE cust)

\* mark_external_active: Kommo's own pause ends with Kommo's word.
MarkExternalActive ==
    IF cust.state = "escalated" /\ cust.source = "external" THEN Lift(Active)
    ELSE Write(IF cust.state = "active" THEN Active ELSE cust)

\* sync_local_state_from_ai_mode
Mirror(seen) ==
    CASE seen = "active" -> MarkExternalActive
      [] seen \in {"human", "paused"} -> MarkExternalEscalation
      [] OTHER -> UNCHANGED <<cust, hold>>

\* Mutant: the sweep's query passes over the customers without a lead.
BeginReactivationKommoOnly(r) ==
    /\ Unlocked /\ Expired(cust) /\ Kommo
    /\ react' = [by |-> r, step |-> "update"]

\* reactivate_if_expired and a row of process_expired_automatic_escalations:
\* SELECT ... FOR UPDATE finds it expired.
BeginReactivation(r) ==
    /\ Unlocked /\ Expired(cust)
    /\ react' = [by |-> r, step |-> IF Kommo THEN "update" ELSE "local"]

\* _reactivate_delivery_provider_if_needed: the update may fail, done or not.
ReactivateInKommo ==
    /\ react.step = "update"
    /\ \/ mode' = "active" /\ react' = [react EXCEPT !.step = "confirm"]
       \/ mode' \in {mode, "active"} /\ react' = Idle

ReactivationConfirmed ==
    /\ react.step = "confirm"
    /\ \/ mode = "active" /\ react' = [react EXCEPT !.step = "local"]
       \/ react' = Idle    \* another mode, or the read failed
    /\ UNCHANGED mode

\* Row, history and session in the transaction that holds the lock.
Reactivate ==
    /\ react.step = "local"
    /\ cust' = Active
    /\ ResetSession
    /\ react' = Idle
    /\ UNCHANGED mode

ExpiryDue ==
    /\ cust.expiry = "running" /\ Unlocked
    /\ cust' = [cust EXCEPT !.expiry = "due"]

-----------------------------------------------------------------------------
(* kommo/state.py                                                          *)

\* ensure_ai_mode_initialized writes after its second read found no mode.
WriteInitialMode == mode' = "active"

\* sync_escalation_to_kommo: errors are logged, the lead stays as it was.
SyncEscalation == mode' \in IF Kommo THEN {"human", mode} ELSE {mode}

-----------------------------------------------------------------------------
(* Administrators and operators                                            *)

Intervenes(n) == people > 0 /\ people' = people - n

\* pause_customer_for_admin, activate_customer_for_admin and the direct
\* writes; "save" is update_customer for a row that was active when read.
Request(what) ==
    /\ admin = "free" /\ Intervenes(1)
    /\ what = "save" => cust.state = "active"
    /\ admin' = IF ~Kommo /\ what = "pause" THEN "paused"
                ELSE IF ~Kommo /\ what = "activate" THEN "activated" ELSE what
    /\ UNCHANGED <<cust, mode, enabled, react, hold>>

\* The update of the mode; an error ends the request.
AdminUpdatesKommo ==
    /\ admin \in {"pause", "activate"}
    /\ LET wanted == IF admin = "pause" THEN "paused" ELSE "active" IN
       \/ mode' = wanted /\ admin' = IF admin = "pause" THEN "pausing" ELSE "activating"
       \/ mode' \in {mode, wanted} /\ admin' = "free"
    /\ UNCHANGED <<cust, enabled, react, hold, people>>

AdminConfirms ==
    /\ admin \in {"pausing", "activating"}
    /\ \/ mode = "paused" /\ admin = "pausing" /\ admin' = "paused"
       \/ mode = "active" /\ admin = "activating" /\ admin' = "activated"
       \/ admin' = "free"
    /\ UNCHANGED <<cust, mode, enabled, react, hold, people>>

AdminWrites ==
    /\ \/ admin = "paused" /\ Write(Paused("manual")) /\ admin' = "free"
       \/ admin = "activated" /\ Lift(Active) /\ admin' = "reset"
       \/ admin = "block" /\ admin' = "free"
          /\ Write([state |-> "blocked", source |-> "none", expiry |-> "none"])
       \/ admin = "save" /\ Lift([cust EXCEPT !.state = "active"]) /\ admin' = "free"
    /\ UNCHANGED <<mode, enabled, react, people>>

\* reset_customer_context, after the row's own statement.
AdminResets ==
    /\ admin = "reset" /\ admin' = "free"
    /\ ResetSession
    /\ UNCHANGED <<cust, mode, enabled, react, hold, people>>

\* Somebody in Kommo takes the conversation, or gives it back.
OperatorSets(m) ==
    /\ Kommo /\ m # mode /\ Intervenes(1)
    /\ mode' = m
    /\ UNCHANGED <<cust, enabled, react, admin, hold>>

\* /ai on, /ai off and the settings page.
ToggleAssistant ==
    /\ Intervenes(1)
    /\ enabled' = ~enabled
    /\ UNCHANGED <<cust, mode, react, admin, hold>>

-----------------------------------------------------------------------------
PausesTypeOK ==
    /\ cust \in Cust /\ mode \in Modes /\ enabled \in BOOLEAN
    /\ react \in [by : Reactors \cup {NoOne}, step : {"off", "update", "confirm", "local"}]
    /\ admin \in Requests
    /\ hold \in Nat /\ people \in Nat
    /\ react.by = NoOne <=> react.step = "off"
=============================================================================
