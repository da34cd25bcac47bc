------------------------------- MODULE Storage -------------------------------
(***************************************************************************)
(* nvs_storage.c and the portal's handler of a submitted form, the only    *)
(* writer. All functions of nvs_storage.c work through one global handle.  *)
(* The NVS library is external: a value set is seen by later reads, is     *)
(* durable once committed, and until then a restart may find the old value *)
(* or the new one, key by key. Any call of it may fail.                    *)
(* A value is the number of the form it was submitted with, 0 for none, so *)
(* that a mixture of two forms can be told from both.                      *)
(***************************************************************************)
EXTENDS Integers

CONSTANT MaxForms      (* bound: forms submitted to the portal              *)

ASSUME FormsAssumption == MaxForms \in Nat

Key   == {"ssid", "passw", "server_ip"}
Login == {"ssid", "passw"}
Value == 0..MaxForms

VARIABLES
  flash,          (* what has been committed                               *)
  cache,          (* what a read returns                                   *)
  memory_handle,  (* what the global handle can be used for                *)
  httpd_pc,       (* where post_handler is in its calls                    *)
  err,            (* storage_set_credentials has met an error              *)
  form,           (* number of the last form submitted                     *)
  with_server,    (* the form in hand has a server address                 *)
  kept, open      (* history: see KeyStore                                 *)

nvsVars   == <<flash, cache, memory_handle>>
httpdVars == <<httpd_pc, err, form, with_server>>
histVars  == <<kept, open>>
stVars    == <<nvsVars, httpdVars, histVars>>

Handle == {"closed", "readonly", "readwrite"}
HttpdPc == {"idle", "open", "ssid", "passw", "commit", "close",
            "ip_open", "ip_set", "ip_commit", "ip_close", "reply", "restart"}

StTypeOK ==
  /\ flash \in [Key -> Value] /\ cache \in [Key -> Value]
  /\ memory_handle \in Handle
  /\ httpd_pc \in HttpdPc
  /\ err \in BOOLEAN /\ with_server \in BOOLEAN
  /\ form \in 0..MaxForms
  /\ kept \in [Login -> Value]
  /\ open \in SUBSET (1..MaxForms)

Nothing == [k \in Key |-> 0]

StInit ==
  /\ flash = Nothing /\ cache = Nothing
  /\ memory_handle = "closed"
  /\ httpd_pc = "idle" /\ err = FALSE /\ with_server = FALSE
  /\ form = 0
  /\ kept = [k \in Login |-> 0] /\ open = {}

-----------------------------------------------------------------------------
(* The library. *)

NvsOpen(mode) == memory_handle' = mode /\ UNCHANGED <<flash, cache>>
NvsClose      == memory_handle' = "closed" /\ UNCHANGED <<flash, cache>>

(* A value that could not be written may have been written all the same.   *)
NvsSet(k, ok) ==
  /\ ok => memory_handle = "readwrite"
  /\ \/ cache' = [cache EXCEPT ![k] = form]
     \/ ~ok /\ cache' = cache
  /\ UNCHANGED <<flash, memory_handle>>

NvsCommit(ok) ==
  /\ ok => memory_handle # "closed"
  /\ flash' = IF ok THEN cache ELSE flash
  /\ UNCHANGED <<cache, memory_handle>>

(* nvs_get_str into a buffer that holds the default: 0 when there is none. *)
NvsGet(k) == IF memory_handle = "closed" THEN 0 ELSE cache[k]

(* nvs_flash_erase. *)
NvsErase ==
  /\ flash' = Nothing /\ cache' = Nothing
  /\ kept' = [k \in Login |-> 0] /\ open' = {}
  /\ UNCHANGED <<memory_handle, httpdVars>>

(* The chip restarts, wherever the save is. *)
StRestart ==
  /\ \E lost \in SUBSET {k \in Key : flash[k] # cache[k]} :
       flash' = [k \in Key |-> IF k \in lost THEN flash[k] ELSE cache[k]]
  /\ cache' = flash'
  /\ memory_handle' = "closed"
  /\ httpd_pc' = "idle" /\ err' = FALSE /\ with_server' = FALSE
  /\ UNCHANGED <<form, histVars>>

-----------------------------------------------------------------------------
(* post_handler, storage_set_credentials and storage_set_server_ip.        *)

Step(from, to) ==
  /\ httpd_pc = from
  /\ httpd_pc' = to
  /\ UNCHANGED <<form, with_server>>

(* A form with a name and a password. Others are answered and change       *)
(* nothing.                                                                *)
Post ==
  /\ httpd_pc = "idle"
  /\ form < MaxForms
  /\ httpd_pc' = "open"
  /\ form' = form + 1
  /\ with_server' \in BOOLEAN
  /\ open' = open \cup {form'}
  /\ UNCHANGED <<nvsVars, err, kept>>

(* Mutant: an error does not end it.                                       *)
OrOn(ok, next) == next

(* A call of storage_set_credentials: the first error ends it.             *)
Or(ok, next) == IF ok THEN next ELSE "close"

SetOpen(ok) ==
  /\ Step("open", Or(ok, "ssid"))
  /\ IF ok THEN NvsOpen("readwrite") ELSE UNCHANGED nvsVars
  /\ err' = ~ok
  /\ UNCHANGED histVars

SetSsid(ok) ==
  /\ Step("ssid", Or(ok, "passw"))
  /\ NvsSet("ssid", ok)
  /\ err' = ~ok
  /\ UNCHANGED histVars

SetPassw(ok) ==
  /\ Step("passw", Or(ok, "commit"))
  /\ NvsSet("passw", ok)
  /\ err' = ~ok
  /\ UNCHANGED histVars

SetCommit(ok) ==
  /\ Step("commit", "close")
  /\ NvsCommit(ok)
  /\ err' = ~ok
  /\ UNCHANGED histVars

(* Mutant: the result of the commit is not looked at.                      *)
AfterCloseBlind == IF with_server THEN "ip_open" ELSE "reply"

(* What post_handler does with the result: an error is answered, twice.    *)
AfterClose == IF err THEN "idle" ELSE IF with_server THEN "ip_open" ELSE "reply"

SetClose ==
  /\ Step("close", AfterClose)
  /\ NvsClose
  /\ err' = FALSE
  /\ UNCHANGED histVars

(* storage_set_server_ip, whose result nobody looks at. It returns without *)
(* closing when it cannot open.                                            *)
IpOpen(ok) ==
  /\ Step("ip_open", IF ok THEN "ip_set" ELSE "reply")
  /\ IF ok THEN NvsOpen("readwrite") ELSE UNCHANGED nvsVars
  /\ UNCHANGED <<err, histVars>>

IpSet(ok) ==
  /\ Step("ip_set", IF ok THEN "ip_commit" ELSE "ip_close")
  /\ NvsSet("server_ip", ok)
  /\ UNCHANGED <<err, histVars>>

IpCommit(ok) ==
  /\ Step("ip_commit", "ip_close")
  /\ NvsCommit(ok)
  /\ UNCHANGED <<err, histVars>>

IpClose ==
  /\ Step("ip_close", "reply")
  /\ NvsClose
  /\ UNCHANGED <<err, histVars>>

(* The page that says "saved".                                             *)
Reply ==
  /\ Step("reply", "restart")
  /\ kept' = [k \in Login |-> form]
  /\ open' = {}
  /\ UNCHANGED <<nvsVars, err>>

Save ==
  \/ \E ok \in BOOLEAN :
       \/ SetOpen(ok) \/ SetSsid(ok) \/ SetPassw(ok) \/ SetCommit(ok)
       \/ IpOpen(ok) \/ IpSet(ok) \/ IpCommit(ok)
  \/ SetClose \/ IpClose \/ Reply
=============================================================================
