---------------------------- MODULE AdBlockLists ----------------------------
(***************************************************************************)
(* The lists and the domains of AdBlock, extra_api_handlers.go: two rows   *)
(* of the configuration table, one with the lists that are switched off,   *)
(* one with the domains whose state is not that of /etc/hosts.  A toggle   *)
(* reads its row, changes it and writes it back, the whole of it; a row    *)
(* that cannot be read is taken to be empty.                               *)
(*                                                                         *)
(* Toggles overlap.  answered is history: what the panel last said of each *)
(* list and domain, where it can be held to it.                            *)
(***************************************************************************)
EXTENDS Naturals

CONSTANTS
  Togglers,  (* goroutines that serve the toggles                          *)
  Lists,     (* names of lists                                             *)
  Domains,   (* names with a dot                                           *)
  Unsaid     (* nothing the panel can be held to                           *)

VARIABLES
  topics,     (* what the requests of a behaviour are about                *)
  hosts,      (* the names on the lines of 127.0.0.1 and 0.0.0.0 in /etc/hosts *)
  disabled,   (* the row adblock_disabled_lists                            *)
  overrides,  (* the row adblock_domain_overrides                          *)
  toggle,     (* the toggle of each goroutine                              *)
  answered

rows == <<disabled, overrides>>
vars == <<topics, hosts, rows, toggle, answered>>

Items == Lists \cup Domains
Overrides == UNION {[domains -> BOOLEAN] : domains \in SUBSET Domains}

\* item: what is toggled; row: its copy of the row; says: what it will answer; alone and
\* whole: history, it met no toggle of the same row, and it could read the row.
Idle == [item |-> Unsaid]
Toggles(items, copies) ==
  [item : items, row : copies, says : BOOLEAN, alone : BOOLEAN, whole : BOOLEAN]

TypeOK ==
  /\ disabled \subseteq Lists
  /\ overrides \in Overrides
  /\ toggle \in [Togglers ->
       {Idle} \cup Toggles(Lists, SUBSET Lists) \cup Toggles(Domains, Overrides)]
  /\ answered \in [Items -> BOOLEAN \cup {Unsaid}]

Init ==
  /\ disabled = {}
  /\ overrides \in [{} -> BOOLEAN]
  /\ toggle = [t \in Togglers |-> Idle]
  /\ answered = [i \in Items |-> Unsaid]

-----------------------------------------------------------------------------
\* What the pages show.
Enabled(list) == list \notin disabled
Blocked(domain) ==
  IF domain \in DOMAIN overrides THEN overrides[domain] ELSE domain \in hosts
Shown(i) == IF i \in Lists THEN Enabled(i) ELSE Blocked(i)

RowOf(item) == IF item \in Lists THEN Lists ELSE Domains
Rivals(item) == {t \in Togglers : toggle[t] # Idle /\ toggle[t].item \in RowOf(item)}

\* A toggle has read its row: from now on it and those it meets are not alone.
Reads(t, item, row, says, whole) ==
  LET rivals == Rivals(item) IN
  /\ toggle[t] = Idle
  /\ toggle' = [u \in Togglers |->
       IF u = t THEN [item |-> item, row |-> row, says |-> says,
                      alone |-> rivals = {}, whole |-> whole]
       ELSE IF u \in rivals THEN [toggle[u] EXCEPT !.alone = FALSE] ELSE toggle[u]]
  /\ UNCHANGED <<topics, hosts, rows, answered>>

\* A list that is off is switched on, and the other way round.
adblockToggleList(t, list) ==
  /\ "lists" \in topics
  /\ \E whole \in BOOLEAN :
       LET read == IF whole THEN disabled ELSE {} IN
       Reads(t, list, IF list \in read THEN read \ {list} ELSE read \cup {list},
             list \in read, whole)

\* Mutant of Overridden: a domain back in the state of /etc/hosts leaves the row.
OverriddenIfOther(row, domain, blocked) ==
  [d \in (DOMAIN row \ {domain})
           \cup (IF blocked = (domain \in hosts) THEN {} ELSE {domain}) |->
     IF d = domain THEN blocked ELSE row[d]]

\* A toggled domain has its state in the row from then on.
Overridden(row, domain, blocked) ==
  [d \in DOMAIN row \cup {domain} |-> IF d = domain THEN blocked ELSE row[d]]

adblockToggleDomain(t, domain) ==
  /\ "domains" \in topics
  /\ \E whole \in BOOLEAN :
       LET read == IF whole THEN overrides ELSE [d \in {} |-> FALSE]
           current == IF domain \in DOMAIN read THEN read[domain] ELSE domain \in hosts IN
       Reads(t, domain, Overridden(read, domain, ~current), ~current, whole)

\* The row is written back and the toggle answered.  Only one that was alone and had read
\* its row leaves the others of the row as they were.
Save(t) ==
  LET me == toggle[t]
      others == IF me.alone /\ me.whole THEN {} ELSE RowOf(me.item) IN
  /\ toggle[t] # Idle
  /\ IF me.item \in Lists THEN disabled' = me.row /\ UNCHANGED overrides
     ELSE overrides' = me.row /\ UNCHANGED disabled
  /\ answered' = [i \in Items |->
       IF i = me.item THEN me.says ELSE IF i \in others THEN Unsaid ELSE answered[i]]
  /\ toggle' = [toggle EXCEPT ![t] = Idle]
  /\ UNCHANGED <<topics, hosts>>

\* The database refuses: an error is answered.
SaveFails(t) ==
  /\ toggle[t] # Idle
  /\ toggle' = [toggle EXCEPT ![t] = Idle]
  /\ UNCHANGED <<topics, hosts, rows, answered>>

Next ==
  \E t \in Togglers :
    \/ \E list \in Lists : adblockToggleList(t, list)
    \/ \E domain \in Domains : adblockToggleDomain(t, domain)
    \/ Save(t)
    \/ SaveFails(t)

\* A restart of the panel, and with it of the machine, keeps the rows.
Cut ==
  /\ toggle' = [t \in Togglers |-> Idle]
  /\ UNCHANGED <<rows, answered>>

-----------------------------------------------------------------------------
\* What a toggle answered is what the page shows until the next toggle of the same row,
\* whatever happens to /etc/hosts in between, whatever saves fail and wherever the panel
\* is cut off; toggles that overlapped, or could not read the row, put the others of the
\* row in doubt, never what they answered themselves until the other one writes
\* (adblockToggleListHandler, adblockToggleDomainHandler).
TogglesStick == \A i \in Items : answered[i] # Unsaid => Shown(i) = answered[i]
=============================================================================
