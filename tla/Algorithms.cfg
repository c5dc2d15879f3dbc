SPECIFICATION MCSpec
CONSTANTS
 DISK_CMD_TOUT = 9 TokenPolls = 5 StatusPolls = 3 BusyPolls = 6 BlockWords = 3
 Body = 3 Ext = 2 Part = 2
 DWORDS = 256 SS = 8 SZDIRE = 4 MAX_FAT12 = 6 MAX_FAT16 = 12 MAX_FAT32 = 40
 XPart = 2 XMax = 6 XEntries = 4 MAX_EXFAT = 8
 BLOCK = 8 BOOT_END = 8 Delays = {0, 1, 3, 4, 5, 9, 10} Blocks = {1, 2}
 Files = {"a", "b", "t"} Roms = {"a", "b"}
 ExClst = 5 ExFatEnt = 4 ExFiles = 2 ExLengths = {1, 2} ExOffsets = {0, 1, 2, 4}
 ExFaults = {"power", "lost", "done"} ExCalls = 6
 Answers <- MCAnswers Nibbles <- MCNibbles FileBytes <- MCBytesOfFiles Bytes <- MCBytes Names <- MCNames Rivals <- MCRivals Codes <- MCCodes
 XNames <- MCXNames XFiles <- MCXFiles ExVolumes <- MCExVolumes Volumes <- MCVolumes Bases <- MCBases Images <- MCImages Arguments <- MCArguments Screens <- MCScreens
INVARIANTS BusCarriesFrames ChecksumsMatch NamesKept VolumeLaidOut HostConverts ExFilesKept
CHECK_DEADLOCK FALSE
