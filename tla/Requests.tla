------------------------------ MODULE Requests ------------------------------
(***************************************************************************)
(* The calls a client of a VireFS file system makes (the FS and Copier     *)
(* interfaces of fs.go).  Keys are already normalised: what CleanKey does  *)
(* to them is module Keys.                                                 *)
(***************************************************************************)
CONSTANTS Key,   \* normalised keys, of files and of directories
          Val,   \* payloads a Put may be given
          Calls  \* the calls the clients of this instance make

GetReq  == [op : {"get"}, key : Key]
PutReq  == [op : {"put"}, key : Key, val : Val]
DelReq  == [op : {"delete"}, key : Key]
StatReq == [op : {"stat", "exists"}, key : Key]
CopyReq == [op : {"copy"}, key : Key, dst : Key]

Request == GetReq \cup PutReq \cup DelReq \cup StatReq \cup CopyReq

ASSUME CallsAssumption == Calls \subseteq Request
=============================================================================
