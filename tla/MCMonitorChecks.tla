-------------------------- MODULE MCMonitorChecks --------------------------
(* An instance of MonitorChecks for TLC: one monitor of every type, each with  *)
(* the answers that tell its branches apart.                                   *)
EXTENDS MonitorChecks

Rules(c, b, t) == [code |-> c, body |-> b, time |-> t]
Plain(type, target, criteria) ==
    [type |-> type, target |-> target, criteria |-> criteria, steps |-> <<>>]
Journey(type, steps) ==
    [type |-> type, target |-> "blank", criteria |-> <<>>, steps |-> steps]
Step(expect, contains, extract, uses) ==
    [expect |-> expect, contains |-> contains, extract |-> extract, uses |-> uses]

Login == Step(200, Null, {"token"}, {})
Profile == Step(Null, "ok", {"id"}, {"token"})
Order == Step(200, Null, {}, {"token", "id"})

MonitorConfigs ==
    { Plain("api", "good", Rules([op |-> "equals", value |-> 200],
                                 [op |-> "contains", value |-> "ok"],
                                 [op |-> "lt", value |-> 1])),
      Plain("website", "good", Rules([op |-> "lt", value |-> 500],
                                     [op |-> "not_contains", value |-> "ok"],
                                     [op |-> "lte", value |-> 1])),
      Plain("tcp", "good", <<>>), Plain("tcp", "malformed", <<>>),
      Plain("udp", "good", [payload |-> "text", expect |-> TRUE]),
      Plain("udp", "good", [payload |-> "bad_hex", expect |-> FALSE]),
      Plain("udp", "good", [payload |-> "text", expect |-> FALSE]),
      Plain("dns", "good", [expected |-> {"a"}]),
      Plain("dns", "good", [expected |-> {}]),
      Plain("ssl", "good", [min_days |-> 1, match |-> TRUE, host |-> <<"api", "ex">>]),
      Plain("ssl", "malformed", [min_days |-> 1, match |-> TRUE, host |-> <<>>]),
      Plain("ping", "good", <<>>),
      Plain("heartbeat", "blank", <<>>),
      Journey("multi_step_api", <<Login, Order>>),
      Journey("journey", <<Login, Profile, Order>>),
      Journey("journey", <<>>) }

Kinds(K) == {[kind |-> k] : k \in K}
HttpAnswers(times, fields) ==
    Kinds({"timeout", "refused", "broken"})
    \cup [kind : {"response"}, code : {200, 500}, body : SUBSET {"ok"},
          ms : times, fields : SUBSET fields]

NetworkAnswers ==
    [t \in {m.type : m \in MonitorConfigs} |->
       CASE t \in {"api", "website"} -> HttpAnswers(0 .. 2, {})
         [] t \in StepTypes -> HttpAnswers({0}, {"token", "id"})
         [] t = "tcp" -> Kinds({"timeout", "refused", "connected"})
         [] t = "udp" -> Kinds({"timeout", "refused", "datagram"})
         [] t = "dns" -> Kinds({"gaierror", "broken"})
                         \cup [kind : {"records"}, records : SUBSET {"a", "b"}]
         [] t = "ssl" -> Kinds({"handshake", "refused"})
                         \cup [kind : {"cert"}, days : {Null, 0, 1},
                               names : SUBSET {[wild |-> TRUE, labels |-> <<"ex">>],
                                               [wild |-> FALSE, labels |-> <<"ex">>]}]
         [] t = "ping" -> Kinds({"timeout", "no_command"})
                          \cup [kind : {"exit"}, code : {0, 1}]
         [] OTHER -> Kinds({"none"})]
=============================================================================
