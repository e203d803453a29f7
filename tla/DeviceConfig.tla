------------------------------ MODULE DeviceConfig ------------------------------
(***************************************************************************)
(* The device configuration (cpuemu.cpp): cpuemu_load_devcfg reads the -d  *)
(* file line by line into cpuemu_devcfg, and the getters search it for a   *)
(* key and a kind of value.  The string getters replace an environment     *)
(* reference in the stored value itself.                                   *)
(*                                                                         *)
(* A string value is a sequence of pieces: "{", "}", and names in between. *)
(* No value has a "}" before its first "{".                                *)
(***************************************************************************)
EXTENDS Naturals, Sequences, FiniteSetsExt

CONSTANTS Configs,     \* files: sequences of lines, a line a sequence of tokens
          Environment, \* what getenv finds: name -> text
          MaxParams    \* CPUEMU_DEVCFG_PARAM_MAXNUM

Token == [kind : {"string", "dec", "hex"}, text : Seq(STRING), num : Nat]

(* A line is blank or begins with the text of a key.                       *)
ASSUME ConfigAssumption ==
    /\ MaxParams \in Nat
    /\ \A config \in Configs :
         /\ config \in Seq(Seq(Token))
         /\ \A k \in DOMAIN config : config[k] # <<>> => config[k][1].text # <<>>
    /\ \A name \in DOMAIN Environment : Environment[name] \in Seq(STRING)

VARIABLES file, at,    \* the file and the next line of it
          param,       \* cpuemu_devcfg.param[0 .. param_num - 1]
          loaded,      \* "loading", "ok", or "failed"
          answer       \* what the last getter called by a device returned

configVars == <<file, at, param, loaded, answer>>

Str(text) == [kind |-> "string", text |-> text, num |-> 0]
Dec(n) == [kind |-> "dec", text |-> <<>>, num |-> n]
Hex(n) == [kind |-> "hex", text |-> <<>>, num |-> n]

NoAnswer == [get |-> "nothing", key |-> "", nth |-> 0, found |-> FALSE, values |-> <<>>]

ConfigInit ==
    /\ file \in Configs /\ at = 1 /\ param = <<>> /\ loaded = "loading"
    /\ answer = NoAnswer

HostFunctionKey == "DEVICE_CONFIG_HOST_FUNCTION"

Entry(line) ==
    [key |-> line[1].text[1], value |-> line[2],
     second |-> IF Len(line) = 3 THEN line[3] ELSE Str(<<>>), value_num |-> Len(line) - 1]

\* One turn of the loop of cpuemu_load_devcfg: a blank line and the end of the file
\* both end it.
cpuemu_load_devcfg ==
    /\ loaded = "loading"
    /\ IF at > Len(file) \/ file[at] = <<>> THEN loaded' = "ok" /\ UNCHANGED <<at, param>>
       ELSE LET line == file[at]
            IN IF \/ Len(line) # 2 /\ ~(Len(line) = 3 /\ line[1].text[1] = HostFunctionKey)
                  \/ Len(param) >= MaxParams
               THEN loaded' = "failed" /\ UNCHANGED <<at, param>>
               ELSE param' = Append(param, Entry(line)) /\ at' = at + 1 /\ UNCHANGED loaded
    /\ UNCHANGED <<file, answer>>

-----------------------------------------------------------------------------
(* The getters.                                                             *)

Places(text, piece) == {k \in DOMAIN text : text[k] = piece}

\* The first "{" to the first "}" is the reference; the value of the variable and
\* the rest of the text replace the text, whatever stood before the reference.
cpuemu_env_parse_devcfg_string(text) ==
    IF Places(text, "{") = {} \/ Places(text, "}") = {} THEN text
    ELSE LET start == Min(Places(text, "{"))
             end == Min(Places(text, "}"))
         IN IF end = start + 1 \/ text[start + 1] \notin DOMAIN Environment THEN text
            ELSE Environment[text[start + 1]] \o SubSeq(text, end + 1, Len(text))

\* The entry a getter of one value finds; 0 for STD_E_NOENT.
FirstOf(key, kind) ==
    LET all == {k \in DOMAIN param : param[k].value.kind = kind /\ param[k].key = key}
    IN IF all = {} THEN 0 ELSE Min(all)

cpuemu_get_devcfg_value(key, default) ==
    LET k == FirstOf(key, "dec") IN IF k = 0 THEN default ELSE param[k].value.num

cpuemu_get_devcfg_value_hex(key, default) ==
    LET k == FirstOf(key, "hex") IN IF k = 0 THEN default ELSE param[k].value.num

\* Mutant: the last entry of a key is the one that counts.
cpuemu_get_devcfg_string_Last(key) ==
    LET all == {k \in DOMAIN param : param[k].value.kind = "string" /\ param[k].key = key}
    IN IF all = {} THEN 0 ELSE Max(all)

\* cpuemu_get_devcfg_string: the entry it finds, with Expanded its effect on it.
cpuemu_get_devcfg_string(key) == FirstOf(key, "string")

\* cpuemu_get_devcfg_string_pair_at: the entry of an occurrence, from zero.
cpuemu_get_devcfg_string_pair_at(key, occurrence) ==
    LET all == {k \in DOMAIN param : /\ param[k].value_num = 2
                                     /\ param[k].value.kind = "string"
                                     /\ param[k].second.kind = "string"
                                     /\ param[k].key = key}
        nth == {k \in all : Cardinality({j \in all : j < k}) = occurrence}
    IN IF nth = {} THEN 0 ELSE Min(nth)

ExpandedToken(token) == [token EXCEPT !.text = cpuemu_env_parse_devcfg_string(token.text)]

Expanded(params, k, both) ==
    LET entry == params[k]
    IN IF k = 0 THEN params
       ELSE [params EXCEPT
               ![k] = [entry EXCEPT
                         !.value = ExpandedToken(entry.value),
                         !.second = IF both THEN ExpandedToken(entry.second) ELSE entry.second]]

\* A device asks for a key, at any time and as often as it likes.
Ask(get, key, nth) ==
    /\ loaded = "ok"
    /\ LET k == CASE get = "dec" -> FirstOf(key, "dec")
                  [] get = "hex" -> FirstOf(key, "hex")
                  [] get = "string" -> cpuemu_get_devcfg_string(key)
                  [] get = "pair" -> cpuemu_get_devcfg_string_pair_at(key, nth)
           new == IF get \in {"dec", "hex"} THEN param ELSE Expanded(param, k, get = "pair")
       IN /\ param' = new
          /\ answer' = [get |-> get, key |-> key, nth |-> nth, found |-> k # 0,
                        values |-> IF k = 0 THEN <<>>
                                   ELSE IF get = "pair" THEN <<new[k].value, new[k].second>>
                                   ELSE <<new[k].value>>]
    /\ UNCHANGED <<file, at, loaded>>

-----------------------------------------------------------------------------
(* What the file says, for the property.                                    *)

\* The lines before the first blank one.
Said == LET blank == {k \in DOMAIN file : file[k] = <<>>}
        IN IF blank = {} THEN file ELSE SubSeq(file, 1, Min(blank) - 1)

\* A text whose expansion leaves nothing to expand, as it is with one reference at most;
\* the next lookup of any other one may expand what the first lookup left.
Settled(text) ==
    LET once == cpuemu_env_parse_devcfg_string(text)
    IN cpuemu_env_parse_devcfg_string(once) = once

Meant(token) == IF token.kind = "string" THEN ExpandedToken(token) ELSE token

\* A getter returns what the file says: the value, expanded, of the first line of the
\* key with a value of that kind (docs/configuration.md), or of the line of the
\* occurrence asked for; the expansion other lookups left in the stored values
\* does not show.
AnswersExact ==
    LET kind == IF answer.get = "pair" THEN "string" ELSE answer.get
        lines == {k \in DOMAIN Said : /\ Said[k][1].text[1] = answer.key
                                      /\ Said[k][2].kind = kind
                                      /\ answer.get = "pair" =>
                                            Len(Said[k]) = 3 /\ Said[k][3].kind = "string"}
        mine == {k \in lines : Cardinality({j \in lines : j < k}) = answer.nth}
    IN answer.get # "nothing" =>
          /\ answer.found <=> mine # {}
          /\ \A k \in mine : \A v \in DOMAIN answer.values :
                Settled(Said[k][v + 1].text) => answer.values[v] = Meant(Said[k][v + 1])
=============================================================================
