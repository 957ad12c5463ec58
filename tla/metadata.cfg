SPECIFICATION FairSpec
CONSTANTS
  NBuilds = 2
  Commits = {"kv", "tr"}
  NewCommits <- MCNewCommits
  WithInvalidSha = {1}
  Master = {}
  Testrunner = {"tr"}
  Keys = {"jira_comments", "owner"}
  JiraComments = "jira_comments"
  Allowed = {"owner"}
  Bodies = {{"owner"}, {"jira_comments"}}
  Workers = {w1}
  NoDoc = NoDoc
  NoRequest = NoRequest
INVARIANTS
  MetadataKept
  MarkedIsCommented
  CommentedOnce
PROPERTIES
  EventuallyMarked
