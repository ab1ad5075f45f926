CONSTANTS
  Passwords = {p1}
  NoPassword = noPassword
  Faults = {"format", "keyslot", "activate", "mkfs", "fsck", "exists",
            "mkdir", "mount", "rmdir", "umount", "deactivate", "io",
            "corrupt", "crash", "reboot"}
SPECIFICATION RecoverySpec
PROPERTIES
  VolumeComesBack
  ComebackAdvances
CHECK_DEADLOCK FALSE
