---------------------------- MODULE MCLifecycle ----------------------------
(***************************************************************************)
(* Finite instances of Lifecycle: two instances, one server, a key with a  *)
(* certificate, and a file that holds both.                                *)
(***************************************************************************)
EXTENDS Lifecycle

CONSTANTS i1, i2

MCLoadable == {<<"crt", "key">>, <<"pem", "pem">>}

Entry(host, key_file, crt_file) == [host |-> host, key_file |-> key_file, crt_file |-> crt_file]

(* As documented: no context can be loaded from it.                        *)
Documented == <<Entry("www", "key", "crt")>>

(* In the order that aisl_new_ssl needs: the second and third entries      *)
(* share the context of the first, the last has one of its own.            *)
Swapped == <<Entry("pem", "pem", "www"), Entry("web", "pem", "pem"),
             Entry("ftp", "pem", "pem"), Entry("key", "crt", "web")>>

(* The second entry fails after the first was loaded.                      *)
HalfSwapped == <<Entry("key", "crt", "web"), Entry("www", "key", "crt")>>

MCConfigs == {<<>>, Documented, Swapped, HalfSwapped}
=============================================================================
