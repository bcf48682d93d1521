---------------------------- MODULE MCRegistrar ----------------------------
(* Values of the constants of Registrar for TLC: one instrument x, reached in  *)
(* several ways, and two frontends.                                            *)
EXTENDS Registrar
CONSTANTS a1, a2, a3
X(technology) == <<"x", technology>>
Mdns == <<"mdns_scheduler", "SERVICE">>
Mqtt == <<"mqtt_scheduler", "SERVICE">>
Nobody == <<"nobody", "NONE">>
AllIds == {X("LOCAL"), X("LAN"), X("IS1"), X("MQTT"), Mdns, Mqtt, Nobody}
Cast(i1, i2, i3) == [a \in Addr |-> CASE a = a1 -> i1 [] a = a2 -> i2 [] OTHER -> i3]
Faulty == {Cast(Mdns, Nobody, Nobody), Cast(X("IS1"), X("MQTT"), Nobody)}
AllCasts ==
    Faulty \cup {Cast(X("LAN"), X("LAN"), X("MQTT")), Cast(X("LOCAL"), X("LOCAL"), Mdns),
                 Cast(Mqtt, Mqtt, Nobody)}
=============================================================================
