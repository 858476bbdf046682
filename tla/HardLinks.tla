----------------------------- MODULE HardLinks -----------------------------
(* A tree of sizes some of whose files are links of one inode.              *)
EXTENDS TreeSizes, TLC

CONSTANTS Inode, NoInode   \* the inode of each file, if it has several links

ASSUME InodeAssumption == DOMAIN Inode = Files
=============================================================================
