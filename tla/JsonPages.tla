----------------------------- MODULE JsonPages ------------------------------
(***************************************************************************)
(* The text of the json pages, composed with JsonBuffer: names are escaped *)
(* by json_print_string() (src/main/json.c), which reads its input twice,  *)
(* and POST /connect.json replaces the ssid of *wifi_manager_config_sta    *)
(* without the mutex under which the status page is printed.               *)
(***************************************************************************)
EXTENDS JsonBuffer, Sequences, FiniteSets

CONSTANTS
  Name,      \* the names a network may have, without the empty one
  MaxList    \* access points in a scan (bound)

\* Characters: one that needs no escape, three with an escape of two characters
\* and a control character that has none.
Plain   == {"t"}
Short   == {"quote", "backslash", "tab"}
Control == {"control"}

ASSUME NameAssumption == Name \subseteq Seq(Plain \cup Short \cup Control) /\ MaxList \in Nat

VARIABLES
  text,      \* accessp_json and ip_info_json: the names printed, and the end
  ssid,      \* wifi_manager_config_sta->sta.ssid
  posting,   \* how far POST /connect.json is in replacing it
  stage,     \* how far each task is in rewriting a buffer
  counted    \* json_print_string() of the status page, after its first pass

pageVars == <<text, ssid, posting, stage, counted>>
allVars  == <<vars, pageVars>>

\* A buffer that has been cleared, and one whose generation has begun.
Cleared   == [names |-> <<>>, end |-> "closed"]
Unwritten == [names |-> <<>>, end |-> "unwritten"]

PagesInit ==
  /\ Init
  /\ text = [b \in {"ap", "ip"} |-> Cleared]
  /\ ssid = <<>> /\ posting = "none"
  /\ stage = [t \in Task |-> "start"]
  /\ counted = [length |-> 0, escapes |-> 0]

-----------------------------------------------------------------------------
(* json_print_string().                                                    *)

\* The additional characters for the first n characters of a name.
Extra(name, n) ==
  Cardinality({i \in 1..n : name[i] \in Short}) + 5 * Cardinality({i \in 1..n : name[i] \in Control})

\* The first pass.
FirstPass(name) ==
  LET n == Extra(name, Len(name))
  IN  [length |-> Len(name) + n, escapes |-> n]

\* The second pass: what a character becomes, and where output_pointer is when
\* the pass comes to the i-th one.
Escaped(c) == CASE c = "quote"     -> <<"backslash", "quote">>
                [] c = "backslash" -> <<"backslash", "backslash">>
                [] c = "tab"       -> <<"backslash", "t">>
                [] c \in Control   -> <<"backslash", "u", "0", "0", "0", "0">>
                [] OTHER           -> <<c>>

Pointer(name, i) == i + Extra(name, i - 1)

Copied(name) ==
  [k \in 1..(Len(name) + Extra(name, Len(name))) |->
     LET i == CHOOSE i \in 1..Len(name) : Pointer(name, i) <= k /\ k < Pointer(name, i + 1)
     IN  Escaped(name[i])[k - Pointer(name, i) + 1]]

\* The closing quote is put where the first pass computed; what a shorter copy
\* leaves before it is a NUL, which ends the text.
SecondPass(name, first) ==
  LET copy == IF first.escapes = 0 THEN name ELSE Copied(name)
      n    == IF Len(copy) < first.length THEN Len(copy) + 1 ELSE first.length + 2
  IN  [k \in 1..n |-> IF k \in {1, first.length + 2} THEN "quote" ELSE copy[k - 1]]

Printed(name, first) == [name |-> name, as |-> SecondPass(name, first)]

-----------------------------------------------------------------------------
(* The tasks, between the lock and the unlock.                             *)

Using(t, jobs, from, to) ==
  /\ ~aborted /\ pc[t] = "using" /\ job[t] \in jobs
  /\ stage[t] = from /\ stage' = [stage EXCEPT ![t] = to]
  /\ UNCHANGED <<vars, ssid, posting>>

\* Faulty variant: wifi_manager_connect_async() does not flush the page.
ClearSkipped(t) ==
  /\ Using(t, {"connect_async", "connect.json"}, "start", "done")
  /\ UNCHANGED <<text, counted>>

\* wifi_manager_clear_ip_info_json().
Clear(t) ==
  /\ Using(t, {"connect_async", "connect.json"}, "start", "done")
  /\ text' = [text EXCEPT !["ip"] = Cleared]
  /\ UNCHANGED counted

\* wifi_manager_generate_ip_info_json(), with the two passes over the ssid.  The
\* sizes of the buffers (wifi_manager.h:123-138) are not modelled: every text fits.
StatusCount ==
  /\ Using("manager", {"status_update"}, "start", "counted")
  /\ text' = [text EXCEPT !["ip"] = Unwritten]
  /\ counted' = FirstPass(ssid)

StatusCopy ==
  /\ Using("manager", {"status_update"}, "counted", "done")
  /\ text' = [text EXCEPT !["ip"] = [names |-> <<Printed(ssid, counted)>>, end |-> "closed"]]
  /\ counted' = [length |-> 0, escapes |-> 0]

\* wifi_manager_generate_acess_points_json(), of copies of the records: a list is
\* closed after its last element, so an empty one is not closed.
ListBegin ==
  /\ Using("manager", {"scan"}, "start", "counted")
  /\ text' = [text EXCEPT !["ap"] = Unwritten]
  /\ UNCHANGED counted

ListPrint ==
  /\ Using("manager", {"scan"}, "counted", "done")
  /\ \E n \in 0..MaxList : \E list \in [1..n -> Name] :
       text' = [text EXCEPT !["ap"] =
                  [names |-> [i \in 1..n |-> Printed(list[i], FirstPass(list[i]))],
                   end   |-> IF n = 0 THEN "missing" ELSE "closed"]]
  /\ UNCHANGED counted

Generate(t) ==
  \/ Clear(t)
  \/ t = "manager" /\ (StatusCount \/ StatusCopy \/ ListBegin \/ ListPrint)

\* POST /connect.json: memset() and memcpy() before wifi_manager_connect_async().
PostConfig ==
  /\ ~aborted /\ pc["http"] = "lock" /\ job["http"] = "connect.json"
  /\ \/ posting = "none" /\ posting' = "zeroed" /\ ssid' = <<>>
     \/ posting = "zeroed" /\ posting' = "copied" /\ ssid' \in Name
  /\ UNCHANGED <<vars, text, stage, counted>>

\* The manager erases the configuration or fetches the stored one.
ManagerConfig ==
  /\ ~aborted /\ pc["manager"] = "idle"
  /\ ssid' \in Name \cup {<<>>}
  /\ UNCHANGED <<vars, text, posting, stage, counted>>

-----------------------------------------------------------------------------
(* The steps of JsonBuffer.                                                *)

PageBegin(t) ==
  /\ Begin(t)
  /\ posting' = IF t = "http" THEN "none" ELSE posting
  /\ UNCHANGED <<text, ssid, stage, counted>>

PageLock(t) ==
  /\ Lock(t) /\ (job[t] = "connect.json" => posting = "copied")
  /\ stage' = [stage EXCEPT ![t] = "start"]
  /\ UNCHANGED <<text, ssid, posting, counted>>

PageTimesOut(t) ==
  /\ LockTimesOut(t)
  /\ stage' = [stage EXCEPT ![t] = "start"]
  /\ UNCHANGED <<text, ssid, posting, counted>>

\* GET /register.json generates and sends its own buffer under the mutex.
PageUnlock(t) ==
  /\ Unlock(t) /\ (job[t] \in ManagerJob \cup {"connect.json"} => stage[t] = "done")
  /\ stage' = [stage EXCEPT ![t] = "start"]
  /\ UNCHANGED <<text, ssid, posting, counted>>

PageProceeds(t) ==
  \/ Generate(t) \/ PageUnlock(t)
  \/ UnlockAgain(t) /\ UNCHANGED pageVars

PageRestart ==
  /\ Restart
  /\ text' = [b \in {"ap", "ip"} |-> Cleared] /\ ssid' = <<>> /\ posting' = "none"
  /\ stage' = [t \in Task |-> "start"] /\ counted' = [length |-> 0, escapes |-> 0]

PagesNext ==
  \/ \E t \in Task : PageBegin(t) \/ PageLock(t) \/ PageTimesOut(t) \/ PageProceeds(t)
  \/ PostConfig \/ ManagerConfig \/ PageRestart

\* As in JsonBuffer.
PagesSpec ==
  /\ PagesInit /\ [][PagesNext]_allVars
  /\ WF_allVars(PostConfig)
  /\ \A t \in Task : WF_allVars(PageProceeds(t)) /\ SF_allVars(PageLock(t))

-----------------------------------------------------------------------------
(* Properties.                                                             *)

\* The reference: the pieces a json string is made of, and what they stand for.
Piece ==
  {[text |-> <<c>>, char |-> c] : c \in Plain}
    \cup {[text |-> <<"backslash", c>>, char |-> c] : c \in {"quote", "backslash"}}
    \cup {[text |-> <<"backslash", "t">>, char |-> "tab"],
          [text |-> <<"backslash", "u", "0", "0", "0", "0">>, char |-> "control"]}

\* A reader finds the piece for name[i] at at[i], and the closing quote last.
ReadBy(s, name, at) ==
  /\ s[1] = "quote" /\ at[1] = 2
  /\ \A i \in 1..Len(name) : \E p \in Piece :
       /\ p.char = name[i] /\ at[i + 1] = at[i] + Len(p.text)
       /\ \A k \in 1..Len(p.text) : s[at[i] + k - 1] = p.text[k]
  /\ at[Len(name) + 1] = Len(s) /\ s[Len(s)] = "quote"

ReadAs(s, name) == \E at \in [1..(Len(name) + 1) -> 1..Len(s)] : ReadBy(s, name, at)

Readable(page) ==
  /\ page.end = "closed" \/ (page.end = "missing" /\ page.names = <<>>)
  /\ \A i \in 1..Len(page.names) : ReadAs(page.names[i].as, page.names[i].name)

\* Every status page and every list of at least one network that is sent can be
\* read back, whatever the names: json_print_string() counts what it copies, and a
\* page torn by a POST that changed the ssid between the two passes is flushed by
\* wifi_manager_connect_async() before the same task can send it.  (The page of an
\* empty list is "[", whose end is missing.)
PageReadable ==
  (pc["http"] = "using" /\ job["http"] \in {"ap.json", "status.json"})
    => Readable(text[BufferOf(job["http"])])

=============================================================================
