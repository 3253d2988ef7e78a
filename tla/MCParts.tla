------------------------------- MODULE MCParts -------------------------------
(* The algorithms below the servers and the file system for TLC: the flash     *)
(* writer of the updater, the reply queue and the working directory of the FTP *)
(* server, the flash disk.  They share no state, so a behaviour exercises one  *)
(* of them and leaves the others at rest.                                      *)
EXTENDS UpdaterFlash, Fifo, FtpPath, SflashDisk

VARIABLE part

\* A disk at rest has one initial state.
AtRest == part # "disk" => flash = [s \in Sectors |-> "erased"]
                           /\ sflash_block_cache = [i \in Offsets |-> "erased"]

PartsInit ==
  /\ Init /\ FifoInit /\ PathInit /\ DiskInit
  /\ part \in {"flash", "fifo", "path", "disk"}
  /\ AtRest

PartsNext ==
  /\ UNCHANGED part
  /\ \/ part = "flash" /\ Next /\ UNCHANGED <<fifoVars, path, diskVars>>
     \/ part = "fifo" /\ FifoNext /\ UNCHANGED <<vars, path, diskVars>>
     \/ part = "path" /\ PathNext /\ UNCHANGED <<vars, fifoVars, diskVars>>
     \/ part = "disk" /\ DiskNext /\ UNCHANGED <<vars, fifoVars, path>>

PartsSpec == PartsInit /\ [][PartsNext]_<<vars, fifoVars, path, diskVars, part>>
=============================================================================
