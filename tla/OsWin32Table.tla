---------------------------- MODULE OsWin32Table -----------------------------
(***************************************************************************)
(* fdTable of libfcgi/os_win32.c: the table that lets handles pass for     *)
(* small descriptors.  The operators take a table and give a descriptor    *)
(* or a table; the two functions run in a critical section.                *)
(***************************************************************************)
EXTENDS Integers

CONSTANT OpenMax            \* WIN32_OPEN_MAX

ASSUME TableAssumption == OpenMax \in Nat \ {0}

VARIABLE fdTable            \* a table, or one of each process

Fds == 0 .. OpenMax - 1

Types == {"unused", "pipe_sync", "pipe_async", "socket_sync", "socket_async"}
AsyncTypes == {"pipe_async", "socket_async"}

(* instance is in no assignment of the file: it keeps its initial 0.       *)
EmptyTable == [fd \in Fds |-> [type |-> "unused", fid |-> 0, instance |-> 0]]

Used(table) == {fd \in Fds : table[fd].type # "unused"}

(* The slots that would do: the desired one, else the one with the         *)
(* handle's own number, else any from 1 up.  No handle has a number that   *)
(* is not positive as an int.                                              *)
Slots(table, handle, desired) ==
    LET free == Fds \ Used(table) IN
    CASE desired \in Fds                        -> {desired} \cap free
      [] desired \notin Fds /\ handle <= 0      -> {}
      [] desired \notin Fds /\ handle \in free  -> {handle}
      [] OTHER                                  -> free \ {0}

Win32NewDescriptor(table, handle, desired) ==
    IF Slots(table, handle, desired) = {} THEN -1
    ELSE CHOOSE fd \in Slots(table, handle, desired) :
             \A other \in Slots(table, handle, desired) : fd <= other

Enter(table, fd, type, handle) ==
    [table EXCEPT ![fd].type = type, ![fd].fid = handle]

Win32FreeDescriptor(table, fd) == [table EXCEPT ![fd].type = "unused"]
==============================================================================
