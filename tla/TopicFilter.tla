---------------------------- MODULE TopicFilter -----------------------------
(***************************************************************************)
(* RTI_MQTT_TopicFilter_match, the scanner that decides which messages a   *)
(* subscription receives, one step for each round of its loop, and         *)
(* RTI_MQTT_Subscription_match, which tries the filters of a subscription  *)
(* in turn.                                                                *)
(*                                                                         *)
(* A string is the sequence of its levels, the strings between two         *)
(* slashes, because that is how MQTT says what filters mean.  An index of  *)
(* the scanner is a place: a level and how many characters of it come      *)
(* before.  The slash is the character after the last one of a level, NUL  *)
(* after the last level, so that the scanner only ever sees characters.    *)
(***************************************************************************)
EXTENDS Naturals, Sequences

CONSTANTS
  Characters,     (* what levels are made of                               *)
  Topics          (* names of topics, each a sequence of levels            *)

NUL == "NUL"
Wildcards == {"#", "+"}
IsText(s) == s \in Seq(Seq(Characters)) /\ s # <<>>

(* The name of a topic that a message brings is not the empty string.      *)
ASSUME TextAssumption ==
  /\ {"/", NUL} \cap Characters = {}
  /\ \A t \in Topics : IsText(t) /\ t # <<<<>>>>

VARIABLES
  filters,        (* self->data->config->topic_filters                     *)
  topic,          (* topic_name                                            *)
  trying,         (* i of RTI_MQTT_Subscription_match, from 1              *)
  f_i, v_i,       (* the scanner's places in that filter and in the topic  *)
  verdict         (* what RTI_MQTT_Subscription_match answered             *)

filterVars == <<filters, topic, trying, f_i, v_i, verdict>>

-----------------------------------------------------------------------------
Start == [level |-> 1, char |-> 0]
LevelEnd(s, p) == [p EXCEPT !.char = Len(s[p.level])]
End(s) == [level |-> Len(s), char |-> Len(s[Len(s)])]

At(s, p) ==
  CASE p.char < Len(s[p.level]) -> s[p.level][p.char + 1]
    [] p.char >= Len(s[p.level]) /\ p.level < Len(s) -> "/"
    [] OTHER -> NUL

Succ(s, p) ==
  IF p = LevelEnd(s, p) /\ p.level < Len(s)
  THEN [level |-> p.level + 1, char |-> 0]
  ELSE [p EXCEPT !.char = @ + 1]

filter == filters[trying]
f_ch == At(filter, f_i)
f_ch_next == At(filter, Succ(filter, f_i))
v_ch == At(topic, v_i)

-----------------------------------------------------------------------------
(* The first filter that does not answer "no" settles it, an error         *)
(* included.                                                               *)
Settle(answer) ==
  IF answer = "no" /\ trying < Len(filters)
  THEN trying' = trying + 1 /\ f_i' = Start /\ v_i' = Start /\ UNCHANGED verdict
  ELSE verdict' = answer /\ UNCHANGED <<trying, f_i, v_i>>

GoOn(i, j) == f_i' = i /\ v_i' = j /\ UNCHANGED <<trying, verdict>>

(* "We must have consumed all of `value`": the only test made when the     *)
(* loop ends, whatever is left of the filter.                              *)
Consumed(j) == IF j = End(topic) THEN "yes" ELSE "no"

NoFilters == filters = <<>> /\ Settle("no")

Scanning == filters # <<>> /\ f_ch # NUL /\ v_ch # NUL
LoopEnds == filters # <<>> /\ ~Scanning /\ Settle(Consumed(v_i))

SameCharacter ==
  /\ Scanning /\ f_ch \notin Wildcards
  /\ IF f_ch = v_ch THEN GoOn(Succ(filter, f_i), Succ(topic, v_i)) ELSE Settle("no")

(* A wildcard stands for a whole level, and is refused at run time if the  *)
(* filter goes on within the same level.                                   *)
Invalid == f_ch_next \notin {"/", NUL}
InvalidWildcard == Scanning /\ f_ch \in Wildcards /\ Invalid /\ Settle("error")
Wildcard(ch) == Scanning /\ f_ch = ch /\ ~Invalid
EmptyNextLevel == At(topic, Succ(topic, v_i)) = "/"
EmptyLevel == v_ch = "/"

SkipLevel ==
  LET k == LevelEnd(topic, v_i) IN
  IF At(topic, k) = "/"
  THEN GoOn(Succ(filter, Succ(filter, f_i)), Succ(topic, k)) ELSE Settle("no")

(* A `#' that is not the last character does what a `+' does, except to an *)
(* empty level: that is an error.                                          *)
Hash ==
  /\ Wildcard("#")
  /\ CASE EmptyLevel -> Settle("error")
       [] ~EmptyLevel /\ f_ch_next = NUL -> Settle("yes")
       [] ~EmptyLevel /\ f_ch_next = "/" -> SkipLevel

(* A `+' at the end of the filter runs to the end of the topic, and the    *)
(* increment of the loop then moves past it.                               *)
LastPlusAnywhere == Settle("yes")
LastPlus ==
  LET k == LevelEnd(topic, v_i) IN
  Settle(IF At(topic, k) = NUL THEN Consumed(Succ(topic, k)) ELSE "no")
Plus ==
  /\ Wildcard("+")
  /\ CASE EmptyLevel -> Settle("no")
       [] ~EmptyLevel /\ f_ch_next = NUL -> LastPlus
       [] ~EmptyLevel /\ f_ch_next = "/" -> SkipLevel

Subscription_match ==
  /\ verdict = "none"
  /\ NoFilters \/ LoopEnds \/ SameCharacter \/ InvalidWildcard \/ Hash \/ Plus
  /\ UNCHANGED <<filters, topic>>

-----------------------------------------------------------------------------
(* What MQTT 3.1.1 (4.7.1) says: `+' stands for exactly one level, `#' at  *)
(* the end for any number of them, none included.  A filter is malformed   *)
(* if a wildcard is not a level of its own or a `#' not the last one.      *)
Malformed(f) ==
  \E n \in 1..Len(f) : \E m \in 1..Len(f[n]) :
    f[n][m] \in Wildcards /\ (Len(f[n]) > 1 \/ (f[n] = <<"#">> /\ n < Len(f)))

LevelMatches(f, t) == f = <<"+">> \/ f = t
Agree(f, t, levels) == \A n \in 1..levels : LevelMatches(f[n], t[n])
MqttMatches(f, t) ==
  IF f[Len(f)] = <<"#">>
  THEN Len(t) >= Len(f) - 1 /\ Agree(f, t, Len(f) - 1)
  ELSE Len(t) = Len(f) /\ Agree(f, t, Len(f))

(* The topic ran out before the filter did, and agreed with it until then. *)
CutShort(f, t) ==
  /\ Len(t) <= Len(f)
  /\ Agree(f, t, Len(t) - 1)
  /\ LET level == t[Len(t)]
     IN  Len(level) <= Len(f[Len(t)]) /\ \A n \in 1..Len(level) : f[Len(t)][n] = level[n]

(* A `+' stands for the last level of the topic. *)
PlusIsLast(f, t) == Len(f) >= Len(t) /\ f[Len(t)] = <<"+">>

HasEmptyLevel(t) == \E n \in 1..Len(t) : t[n] = <<>>

(* No message is missed: when MQTT says a topic matches a filter, so does  *)
(* the subscription, provided that filter has no `+' for the last level of *)
(* the topic and no level of the topic is empty.                           *)
Missed(f, t) ==
  ~HasEmptyLevel(t) /\ ~Malformed(f) /\ MqttMatches(f, t) /\ ~PlusIsLast(f, t)
NothingMissed == verdict = "no" => \A n \in 1..Len(filters) : ~Missed(filters[n], topic)

(* A message that MQTT would not deliver gets through in one case only:    *)
(* the topic is a prefix of what a filter asks for.                        *)
LetThrough(f, t) == Malformed(f) \/ MqttMatches(f, t) \/ CutShort(f, t)
StrangersAreCutShort ==
  verdict = "yes" => \E n \in 1..Len(filters) : LetThrough(filters[n], topic)

(* Both ways, the scanner departs from the standard only as described.     *)
AgreesWithStandard == NothingMissed /\ StrangersAreCutShort

(* The match fails, which puts the client in ERROR, only on a malformed    *)
(* filter, or on a topic with an empty level that meets a last `#'.        *)
Fails(f, t) == Malformed(f) \/ (f[Len(f)] = <<"#">> /\ HasEmptyLevel(t))
FailsOnEmptyLevels ==
  verdict = "error" => \E n \in 1..Len(filters) : Fails(filters[n], topic)
=============================================================================
