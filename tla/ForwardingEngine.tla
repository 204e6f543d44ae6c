-------------------------- MODULE ForwardingEngine --------------------------
(***************************************************************************)
(* The forwarding processor: a table of patterns and output names, built   *)
(* row by row from the configuration, and the handler that takes the       *)
(* samples of each input and writes each to the output the table names for *)
(* its key.  The key is the name of the input (ByInputName...) or the text *)
(* of a member of the sample (ByInputValue...).                            *)
(*                                                                         *)
(* Routing Service runs the callbacks of a route one at a time; samples    *)
(* arrive meanwhile.  Names, values and patterns are members of Keys, and  *)
(* how a pattern matches (REDAString_fnmatch) is the operator Matches.     *)
(* The text a member is formatted to is its value: one value, one text.    *)
(***************************************************************************)
EXTENDS Naturals, Sequences, FiniteSets

CONSTANTS
  Keys,             (* names, values and patterns                           *)
  Matches(_, _),    (* Matches(p, k): pattern p matches the string k        *)
  InputOrder,       (* the inputs of the route, a sequence of Keys          *)
  Outputs,          (* the outputs of the route                             *)
  OutNames,         (* the output names a table may give                    *)
  Values,           (* the values members have                              *)
  MaxRows,          (* bounds the model: rows of the table                  *)
  MaxSamples        (* bounds the model: samples that arrive                *)

ASSUME EngineAssumption ==
  /\ InputOrder \in Seq(Keys)
  /\ Outputs \subseteq OutNames
  /\ Values \subseteq Keys
  /\ MaxRows \in Nat /\ MaxSamples \in Nat
  /\ \A p, k \in Keys : Matches(p, k) \in BOOLEAN

VARIABLES
  engine,           (* "name" or "value"                                    *)
  rows,             (* the configured table                                 *)
  row,              (* rows added so far                                    *)
  entries,          (* fwd_table.entries                                    *)
  with_member,      (* inputs that input_members has an entry for           *)
  cache,            (* inputs whose member is in input_members_cache        *)
  queue,            (* samples that wait at each input                      *)
  todo,             (* inputs on_data_available has still to process        *)
  loaned,           (* the first of them was taken from                     *)
  samples,          (* its samples, without those already forwarded         *)
  written,          (* what was written to each output, in order            *)
  dropped,          (* history: samples that went nowhere                   *)
  arrived           (* history: number of samples that arrived              *)

table == <<rows, row, entries>>
config == <<engine, with_member>>
handler == <<todo, loaned, samples>>
vars == <<table, config, cache, queue, handler, written, dropped, arrived>>

Inputs == {InputOrder[n] : n \in DOMAIN InputOrder}
Entry == [in_key : Keys, out_name : OutNames]
Qualities == {"good", "no member", "not valid"}
Sample == [id : 1..MaxSamples, input : Inputs, value : Values,
           quality : Qualities]

RowSequences == UNION {[1..n -> Entry] : n \in 0..MaxRows}

Init ==
  /\ engine \in {"name", "value"}
  /\ with_member \in (IF engine = "name" THEN {{}} ELSE SUBSET Inputs)
  /\ rows \in RowSequences
  /\ row = 0 /\ entries = <<>>
  /\ cache = {}
  /\ queue = [in \in Inputs |-> <<>>]
  /\ todo = <<>> /\ loaned = FALSE /\ samples = <<>>
  /\ written = [out \in Outputs |-> <<>>]
  /\ dropped = {} /\ arrived = 0

-----------------------------------------------------------------------------
(* InternalMatchingTable: find() returns the first entry that matches.     *)
Matching(key) == {n \in DOMAIN entries : Matches(entries[n].in_key, key)}
First(S) == CHOOSE n \in S : \A m \in S : n <= m
find(key) == First(Matching(key))

(* add() looks the new key up as if it were a name: an entry whose pattern *)
(* matches it gets the new output, and only a key nothing matches makes an *)
(* entry of its own.                                                       *)
AddedAnyway(r) == Append(entries, r)
AddedReplacing(r) ==
  IF Matching(r.in_key) # {} THEN [entries EXCEPT ![find(r.in_key)] = r] ELSE Append(entries, r)
add(r) ==
  IF Matching(r.in_key) # {}
  THEN [entries EXCEPT ![find(r.in_key)].out_name = r.out_name]
  ELSE Append(entries, r)

(* One row of from_matching_table.                                         *)
AddRow ==
  /\ row < Len(rows)
  /\ entries' = add(rows[row + 1])
  /\ row' = row + 1
  /\ UNCHANGED <<rows, config, cache, queue, handler, written, dropped, arrived>>

Constructed == row = Len(rows)

-----------------------------------------------------------------------------
Arrive(in, value, quality) ==
  /\ Constructed /\ arrived < MaxSamples
  /\ arrived' = arrived + 1
  /\ queue' = [queue EXCEPT ![in] = Append(@,
       [id |-> arrived + 1, input |-> in, value |-> value, quality |-> quality])]
  /\ UNCHANGED <<table, config, cache, handler, written, dropped>>

(* ForwardingEngine::on_data_available.                                    *)
on_data_available ==
  /\ Constructed /\ todo = <<>>
  /\ \E in \in Inputs : queue[in] # <<>>
  /\ todo' = InputOrder
  /\ UNCHANGED <<table, config, cache, queue, loaned, samples, written, dropped, arrived>>

Take ==
  /\ todo # <<>> /\ ~loaned
  /\ loaned' = TRUE
  /\ samples' = queue[Head(todo)]
  /\ queue' = [queue EXCEPT ![Head(todo)] = <<>>]
  /\ UNCHANGED <<table, config, cache, todo, written, dropped, arrived>>

(* take() throws: the input is given up, the others are not.               *)
TakeFails ==
  /\ todo # <<>> /\ ~loaned
  /\ todo' = Tail(todo)
  /\ UNCHANGED <<table, config, cache, queue, loaned, samples, written, dropped, arrived>>

NextInput ==
  /\ loaned /\ samples = <<>>
  /\ loaned' = FALSE
  /\ todo' = Tail(todo)
  /\ UNCHANGED <<table, config, cache, queue, samples, written, dropped, arrived>>

(* get_forwarding_key of either engine.  The member of an input is looked  *)
(* up once and cached; a sample without it has no key, cached or not.      *)
HasKey(s) == engine = "name" \/ (s.input \in with_member /\ s.quality # "no member")
key(s) == IF engine = "name" THEN s.input ELSE s.value
Cached(s) == IF engine = "value" /\ HasKey(s) THEN cache \cup {s.input} ELSE cache

RestLost == <<>>
Rest == Tail(samples)

Forwardable(s) ==
  /\ s.quality # "not valid" /\ HasKey(s)
  /\ Matching(key(s)) # {}
  /\ entries[find(key(s))].out_name \in Outputs

(* forward_data for the next sample, which is written ...                  *)
ForwardSample ==
  /\ samples # <<>> /\ Forwardable(Head(samples))
  /\ LET s == Head(samples) IN
       /\ written' = [written EXCEPT ![entries[find(key(s))].out_name] = Append(@, s)]
       /\ cache' = Cached(s)
  /\ samples' = Rest
  /\ UNCHANGED <<table, config, queue, todo, loaned, dropped, arrived>>

(* ... or is not: it is not valid, has no key, no entry matches, there is  *)
(* no such output, or the write throws.  The loop goes on.                 *)
DropSample ==
  /\ samples # <<>>
  /\ LET s == Head(samples) IN
       /\ dropped' = dropped \cup {s}
       /\ cache' = IF s.quality = "not valid" THEN cache ELSE Cached(s)
  /\ samples' = Rest
  /\ UNCHANGED <<table, config, queue, todo, loaned, written, arrived>>

Next ==
  \/ AddRow
  \/ \E in \in Inputs, value \in Values, quality \in Qualities : Arrive(in, value, quality)
  \/ on_data_available \/ Take \/ TakeFails \/ NextInput
  \/ ForwardSample \/ DropSample

Spec == Init /\ [][Next]_vars
-----------------------------------------------------------------------------
(* Every variable stays within its type; the table has at most one entry   *)
(* per row.                                                                *)
TypeOK ==
  /\ engine \in {"name", "value"}
  /\ with_member \subseteq Inputs /\ cache \subseteq with_member
  /\ rows \in Seq(Entry) /\ row \in 0..Len(rows)
  /\ entries \in Seq(Entry) /\ Len(entries) <= row
  /\ queue \in [Inputs -> Seq(Sample)]
  /\ todo \in Seq(Inputs) /\ loaned \in BOOLEAN /\ (loaned => todo # <<>>)
  /\ samples \in Seq(Sample) /\ (samples # <<>> => loaned)
  /\ written \in [Outputs -> Seq(Sample)]
  /\ dropped \subseteq Sample /\ arrived \in 0..MaxSamples

(* A key of the configuration that matches itself is found in the table,   *)
(* whatever rows came before and after it, also when add() gave its output *)
(* to the entry of another pattern (ForwardingEngine.cxx:68).              *)
ConfiguredIsFound ==
  \A r \in 1..row :
    Matches(rows[r].in_key, rows[r].in_key) => Matching(rows[r].in_key) # {}

(* With keys that match themselves, the output of an entry is that of the  *)
(* last row whose key the entry is the first to match: a later row with a  *)
(* key that an earlier pattern covers redirects everything the pattern     *)
(* matches (ForwardingEngine.cxx:68).                                      *)
SelfMatching == \A r \in DOMAIN rows : Matches(rows[r].in_key, rows[r].in_key)
Aliases(n) ==
  {r \in 1..row : Matching(rows[r].in_key) # {} /\ find(rows[r].in_key) = n}
LastOf(S, r) == r \in S /\ \A q \in S : q <= r
LastAliasDecides ==
  SelfMatching =>
    \A n \in DOMAIN entries, r \in 1..row :
      LastOf(Aliases(n), r) => entries[n].out_name = rows[r].out_name

(* Every sample that arrived waits, is on loan, was written once or was    *)
(* dropped, and what one output got from one input is in the order in      *)
(* which it arrived, whatever failed in between (ForwardingEngine.cxx:101  *)
(* and 143).                                                               *)
Elements(s) == {s[n] : n \in DOMAIN s}
Ascending(s) ==
  \A m, n \in DOMAIN s : m < n /\ s[m].input = s[n].input => s[m].id < s[n].id
Total(f) ==        (* the elements of all sequences of f *)
  UNION {Elements(f[x]) : x \in DOMAIN f}
SamplesAccounted ==
  /\ \A out \in Outputs : Ascending(written[out])
  /\ {s.id : s \in Total(queue) \cup Elements(samples) \cup Total(written) \cup dropped} = 1..arrived
  /\ \A s \in Total(written) : s \notin dropped /\ s \notin Elements(samples)
  /\ \A out1, out2 \in Outputs : \A s \in Elements(written[out1]) \cap Elements(written[out2]) : out1 = out2
=============================================================================
