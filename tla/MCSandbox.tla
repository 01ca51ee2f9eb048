----------------------------- MODULE MCSandbox -----------------------------
(* Instances of Sandbox for TLC. *)
EXTENDS Sandbox

Wasm(imports, entry) ==
    [valid |-> TRUE, imports |-> imports, indirect |-> FALSE, entry |-> entry]

Payloads == {
    Wasm({"log"}, FALSE),
    Wasm({"wasi"}, TRUE),
    Wasm({"http"}, TRUE),
    Wasm({"exec"}, TRUE),
    Wasm({"log", "other"}, TRUE),
    [Wasm({"log"}, TRUE) EXCEPT !.indirect = TRUE] }

Network(net, prefix) == [net |-> net, prefix |-> prefix]

\* The daemon's empty manifest, and one list of rules after another.
Manifests == {
    [can_http |-> {}, can_exec |-> {}],
    [can_http |-> {}, can_exec |-> {"nmap"}],
    [can_http |-> {Network(1, 0)}, can_exec |-> {}],
    [can_http |-> {Network(2, 1), Network(1, 2), [host |-> [name |-> "site"]]},
     can_exec |-> {"nmap"}] }
=============================================================================
