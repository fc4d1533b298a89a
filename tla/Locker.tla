------------------------------- MODULE Locker -------------------------------
(***************************************************************************)
(* The Redis lock of internal/cache/redis.go, as the services use it.      *)
(*                                                                         *)
(* A lock is a Redis key holding the token of the call that set it.  It is *)
(* set with a time to live, nobody renews it, and Unlock deletes the key   *)
(* only while it still holds the caller's token.  The module is a set of   *)
(* operators on a function from keys to holders; the modules that lock     *)
(* something keep that function in a variable of their own.                *)
(***************************************************************************)
CONSTANT NoHolder   \* the key is absent

(* Locker.Lock can set the key only while it is absent.                    *)
LockFree(lock, key) == lock[key] = NoHolder

(* Locker.Lock: the key now holds the caller's token.                      *)
Locked(lock, key, owner) == [lock EXCEPT ![key] = owner]

(* Lock.Unlock: the key is deleted if it holds the caller's token, and is  *)
(* left alone otherwise (the caller gets "lock is no longer owned").       *)
Unlocked(lock, key, owner) ==
  IF lock[key] = owner THEN [lock EXCEPT ![key] = NoHolder] ELSE lock

(* The time to live given to newMutex has passed: Redis drops the key      *)
(* whoever holds it.                                                       *)
Lapsed_Never(lock, key) == lock
Lapsed(lock, key) == [lock EXCEPT ![key] = NoHolder]
=============================================================================
